---------------------------- MODULE Spec2Model ----------------------------
(***************************************************************************)
(* A model of the SeqClu-PV online clusterer (seqclupv/SeqClu.py and the   *)
(* storage classes under seqclupv/library/storage).                        *)
(*                                                                         *)
(* Sequences are identified by their hash, a number in 1..NumHashes; the   *)
(* stream names a sequence it has not delivered before with the smallest   *)
(* unused number.  The external distance measure is an arbitrary symmetric *)
(* function into DistVals; the value of a pair is chosen when a sequence   *)
(* enters the clusterer and is kept in `dist` from then on.  Real numbers  *)
(* (the code's floats) are exact rationals <<numerator, denominator>>.     *)
(***************************************************************************)
EXTENDS Integers, Sequences, FiniteSets, TLC

(***************************************************************************)
(* Bounds of the model.                                                    *)
(***************************************************************************)
NumHashes == 8
MaxData == 5
MaxDist == 4
MaxPeeks == 1
MaxDuplicates == 1
MaxVotes == 2
MaxFreqDist == 7
MaxFreqHashes == 6
EvictData == 8
MemoData == 6
MaxStoreHashes == 3
MaxStoreCalls == 4
MaxSourceData == 4
MaxEmptyCalls == 2
MaxEvictDist == 16

Hashes == 1..NumHashes
DistVals == {1, MaxDist}

(* The configurations the model is run with (constructor arguments).       *)
ClusterCounts == {1, 2}
PrototypeCounts == {2}
RepresentativeCounts == {1}
BufferSizes == {0, 1, 2}
NoBufferingSizes == {2}
MinimumRepresentativenessValues == {<<0, 1>>, <<1, 1>>}
Ratios == {0, 4}
MaxPerTickValues == {2}

(* dataSource.classes: the label of the cluster with a given index.        *)
classes == <<"a", "b", "c">>

(***************************************************************************)
(* Exact rational arithmetic.  A rational is <<n, d>> with d > 0 in lowest *)
(* terms; None (Python's None for a derived value not yet computed) is     *)
(* <<0, 0>>.                                                               *)
(***************************************************************************)
None == <<0, 0>>

Abs(n) == IF n < 0 THEN -n ELSE n

RECURSIVE GCD(_, _)
GCD(a, b) == IF b = 0 THEN a ELSE GCD(b, a % b)

Rat(n, d) ==
    LET g == GCD(Abs(n), Abs(d))
        s == IF d < 0 THEN -1 ELSE 1
    IN  <<(s * n) \div g, (s * d) \div g>>

RInt(n) == <<n, 1>>
RAdd(x, y) == Rat(x[1] * y[2] + y[1] * x[2], x[2] * y[2])
RSub(x, y) == Rat(x[1] * y[2] - y[1] * x[2], x[2] * y[2])
RMul(x, y) == Rat(x[1] * y[1], x[2] * y[2])
RDiv(x, y) == Rat(x[1] * y[2], x[2] * y[1])
RLt(x, y) == x[1] * y[2] < y[1] * x[2]
RLe(x, y) == x[1] * y[2] <= y[1] * x[2]
RAbs(x) == <<Abs(x[1]), x[2]>>
RMax(x, y) == IF RLt(x, y) THEN y ELSE x

(* int(x) of Python: truncation towards zero.                              *)
RTrunc(x) == IF x[1] >= 0 THEN x[1] \div x[2] ELSE -((-x[1]) \div x[2])

(***************************************************************************)
(* Python containers.  A dict whose order matters is a sequence of         *)
(* entries in insertion order; a set of hashes is iterated in SetOrder.    *)
(***************************************************************************)
RECURSIVE SetOrder(_)
SetOrder(S) ==
    IF S = {} THEN <<>>
    ELSE LET m == CHOOSE x \in S : \A y \in S : x <= y
         IN  <<m>> \o SetOrder(S \ {m})

Range(s) == {s[i] : i \in 1..Len(s)}

(* Let(value, Body) is Body with its parameter bound to value: a local     *)
(* variable assigned once, `name = value`, and the statements that follow  *)
(* it.                                                                     *)
Let(value, Body(_)) == Body(value)

(* The distance cache: entries <<hashOne, hashTwo, distance>>.             *)
HasKey(ds, a, b) == \E i \in 1..Len(ds) : ds[i][1] = a /\ ds[i][2] = b

GetKey(ds, a, b) ==
    LET i == CHOOSE i \in 1..Len(ds) : ds[i][1] = a /\ ds[i][2] = b
    IN  ds[i][3]

PutKey(ds, a, b, v) ==
    IF HasKey(ds, a, b)
    THEN [i \in 1..Len(ds) |->
            IF ds[i][1] = a /\ ds[i][2] = b THEN <<a, b, v>> ELSE ds[i]]
    ELSE Append(ds, <<a, b, v>>)

(* The external distance measure on two sequences, given the resolved      *)
(* values D; the contract gives distance(a, a) = 0.                        *)
calculateDistance(D, a, b) == IF a = b THEN 0 ELSE D[{a, b}]


(***************************************************************************)
(* PrototypeStore (library/storage/prototypes.py).  `prototypes` is the    *)
(* key order of the _prototypes dict; NoHash stands for toReplaceHash =    *)
(* None.                                                                   *)
(***************************************************************************)
NoHash == 0

PrototypeStore(numRepresentativePrototypes, numPrototypes, tick) ==
    [fullyInitialized |-> FALSE,
     lastUpdate |-> tick,
     numRepresentativePrototypes |-> numRepresentativePrototypes,
     numPrototypes |-> numPrototypes,
     otherPrototypeHashes |-> {},
     prototypeHistory |-> << >>,
     prototypes |-> << >>,
     representativePrototypesInitialized |-> FALSE,
     representativePrototypeHashes |-> {}]

numOtherPrototypes(ps) == ps.numPrototypes - ps.numRepresentativePrototypes

DropKey(f, k) == [x \in (DOMAIN f) \ {k} |-> f[x]]
SetKey(f, k, v) == [x \in (DOMAIN f) \cup {k} |-> IF x = k THEN v ELSE f[x]]

(* The assertions in the property getters of a store that is not inside   *)
(* updatePrototypes (updatingPrototypes is False): reading the property    *)
(* raises exactly when this holds.                                         *)
representativePrototypeHashesFails(ps) ==
    ps.fullyInitialized
        /\ Cardinality(ps.representativePrototypeHashes) # ps.numRepresentativePrototypes

otherPrototypeHashesFails(ps) ==
    ps.fullyInitialized
        /\ Cardinality(ps.otherPrototypeHashes) # numOtherPrototypes(ps)

prototypesFails(ps) ==
    ps.fullyInitialized /\ Len(ps.prototypes) # ps.numPrototypes

(* _removePrototype: the hash leaves its half and the history; the         *)
(* _prototypes dict is not touched here.                                   *)
_removePrototypeFails(ps, prototypeHash, representative) ==
    \/ IF representative
       THEN representativePrototypeHashesFails(ps)
                \/ prototypeHash \notin ps.representativePrototypeHashes
       ELSE otherPrototypeHashesFails(ps)
                \/ prototypeHash \notin ps.otherPrototypeHashes
    \/ prototypeHash \notin DOMAIN ps.prototypeHistory

_removePrototype(ps, prototypeHash, representative) ==
    [ps EXCEPT
        !.representativePrototypeHashes =
            IF representative THEN @ \ {prototypeHash} ELSE @,
        !.otherPrototypeHashes =
            IF representative THEN @ ELSE @ \ {prototypeHash},
        !.prototypeHistory = DropKey(@, prototypeHash)]

_addPrototypeFails(ps, prototypeHash, representative) ==
    \/ representativePrototypeHashesFails(ps)
    \/ otherPrototypeHashesFails(ps)
    \/ prototypeHash \in ps.representativePrototypeHashes
    \/ prototypeHash \in ps.otherPrototypeHashes
    \/ IF representative
       THEN ~(Cardinality(ps.representativePrototypeHashes) < ps.numRepresentativePrototypes)
       ELSE ~(Cardinality(ps.otherPrototypeHashes) < numOtherPrototypes(ps))

_addPrototypeIgnoresHalf(ps, prototypeHash, representative, tick) ==
    [ps EXCEPT
        !.representativePrototypeHashes = @ \cup {prototypeHash},
        !.prototypeHistory = SetKey(@, prototypeHash, tick),
        !.lastUpdate = tick]

_addPrototype(ps, prototypeHash, representative, tick) ==
    [ps EXCEPT
        !.representativePrototypeHashes =
            IF representative THEN @ \cup {prototypeHash} ELSE @,
        !.otherPrototypeHashes =
            IF representative THEN @ ELSE @ \cup {prototypeHash},
        !.prototypeHistory = SetKey(@, prototypeHash, tick),
        !.lastUpdate = tick]

(* The first assertion of addPrototype fails: neither an initial fill     *)
(* without toReplaceHash nor a replacement of a stored prototype.          *)
addPrototypeRejects(ps, toReplaceHash) ==
    ~(\/ (~ps.fullyInitialized /\ toReplaceHash = NoHash)
      \/ (toReplaceHash # NoHash /\ ~prototypesFails(ps)
                /\ toReplaceHash \in Range(ps.prototypes)))

(* With assertions stripped (python -O) no call raises.                    *)
addPrototypeUnchecked(ps, prototypeHash, representative, toReplaceHash) == FALSE

(* addPrototype raises (an assertion fails) exactly when this holds.  The  *)
(* getters read after _addPrototype cannot fail when it succeeded: they    *)
(* assert only on a fully initialised store, where _addPrototype fails.    *)
addPrototypeFails(ps, prototypeHash, representative, toReplaceHash) ==
    \/ addPrototypeRejects(ps, toReplaceHash)
    \/ (toReplaceHash # NoHash
            /\ _removePrototypeFails(ps, toReplaceHash, representative))
    \/ _addPrototypeFails(
            IF toReplaceHash # NoHash
            THEN _removePrototype(ps, toReplaceHash, representative) ELSE ps,
            prototypeHash, representative)

addPrototype(ps, prototypeHash, representative, tick, toReplaceHash) ==
    LET removed == IF toReplaceHash # NoHash
                   THEN _removePrototype(ps, toReplaceHash, representative)
                   ELSE ps
        added == _addPrototype(removed, prototypeHash, representative, tick)
        stored == [added EXCEPT !.prototypes =
                       IF prototypeHash \in Range(@) THEN @
                       ELSE Append(@, prototypeHash)]
        nRep == Cardinality(stored.representativePrototypeHashes)
        nOther == Cardinality(stored.otherPrototypeHashes)
    IN  [stored EXCEPT
            !.representativePrototypesInitialized =
                IF nRep = stored.numRepresentativePrototypes THEN TRUE ELSE @,
            !.fullyInitialized =
                IF nRep + nOther = stored.numPrototypes THEN TRUE ELSE @]

(* The store a raising addPrototype leaves behind: nothing is undone, so  *)
(* a removal that succeeded before _addPrototype raised stays.             *)
addPrototypeLeaves(ps, prototypeHash, representative, toReplaceHash) ==
    IF addPrototypeRejects(ps, toReplaceHash) \/ toReplaceHash = NoHash
            \/ _removePrototypeFails(ps, toReplaceHash, representative)
    THEN ps
    ELSE _removePrototype(ps, toReplaceHash, representative)

lastUpdatePrototype(ps, prototypeHash) == ps.prototypeHistory[prototypeHash]

(* The assertions at the head of updatePrototypes.                         *)
updatePrototypesRejects(ps, newPrototypes, newOtherPrototypeHashes, newRepresentativePrototypeHashes) ==
    ~(/\ Len(newPrototypes) = ps.numPrototypes
      /\ Cardinality(newOtherPrototypeHashes) = numOtherPrototypes(ps)
      /\ Cardinality(newRepresentativePrototypeHashes) = ps.numRepresentativePrototypes
      /\ Range(newPrototypes) = newOtherPrototypeHashes \cup newRepresentativePrototypeHashes
      /\ newOtherPrototypeHashes \cap newRepresentativePrototypeHashes = {})

(* The first loop of updatePrototypes over the keys `todo` of _prototypes: *)
(* a key that is not kept is removed from the half it is in, by            *)
(* _removePrototype with the getters' assertions suppressed.               *)
RECURSIVE RemoveAbsent(_, _, _)
RemoveAbsent(ps, todo, newPrototypes) ==
    IF todo = << >> THEN [ps |-> ps, raised |-> FALSE]
    ELSE LET prototypeHash == Head(todo)
             representative == prototypeHash \in ps.representativePrototypeHashes
         IN  IF prototypeHash \in Range(newPrototypes)
             THEN RemoveAbsent(ps, Tail(todo), newPrototypes)
             ELSE IF \/ (~representative /\ prototypeHash \notin ps.otherPrototypeHashes)
                     \/ prototypeHash \notin DOMAIN ps.prototypeHistory
             THEN [ps |-> ps, raised |-> TRUE]
             ELSE RemoveAbsent(_removePrototype(ps, prototypeHash, representative),
                               Tail(todo), newPrototypes)

(* updatePrototypes raises exactly when this holds.                        *)
PrototypeStoreUpdatePrototypesFails(ps, newPrototypes, newOtherPrototypeHashes, newRepresentativePrototypeHashes) ==
    \/ updatePrototypesRejects(ps, newPrototypes, newOtherPrototypeHashes,
                               newRepresentativePrototypeHashes)
    \/ RemoveAbsent(ps, ps.prototypes, newPrototypes).raised

(* The store a raising updatePrototypes leaves behind.                     *)
PrototypeStoreUpdatePrototypesLeaves(ps, newPrototypes, newOtherPrototypeHashes, newRepresentativePrototypeHashes) ==
    IF updatePrototypesRejects(ps, newPrototypes, newOtherPrototypeHashes,
                               newRepresentativePrototypeHashes)
    THEN ps
    ELSE RemoveAbsent(ps, ps.prototypes, newPrototypes).ps

PrototypeStoreUpdatePrototypesKeepsTicks(ps, newPrototypes, newOtherPrototypeHashes, newRepresentativePrototypeHashes, tick) ==
    LET new == Range(newPrototypes)
        removedPrototypeHashes == Range(ps.prototypes) \ new
    IN  [ps |-> [ps EXCEPT
                    !.prototypes = newPrototypes,
                    !.representativePrototypeHashes = newRepresentativePrototypeHashes,
                    !.otherPrototypeHashes = newOtherPrototypeHashes,
                    !.prototypeHistory =
                        [h \in new |-> IF h \in DOMAIN ps.prototypeHistory
                                       THEN ps.prototypeHistory[h] ELSE tick],
                    !.lastUpdate = tick],
         removed |-> removedPrototypeHashes]

(* PrototypeStore.updatePrototypes: [ps |-> the store afterwards,          *)
(* removed |-> the returned set of removed hashes].                        *)
PrototypeStoreUpdatePrototypes(ps, newPrototypes, newOtherPrototypeHashes, newRepresentativePrototypeHashes, tick) ==
    LET new == Range(newPrototypes)
        old == Range(ps.prototypes)
        removedPrototypeHashes == old \ new
        keptRep == ps.representativePrototypeHashes \ removedPrototypeHashes
        keptOther == ps.otherPrototypeHashes \ removedPrototypeHashes
        h1 == [h \in (DOMAIN ps.prototypeHistory) \ removedPrototypeHashes |->
                 IF \/ (h \in keptRep /\ h \in newOtherPrototypeHashes)
                    \/ (h \in keptOther /\ h \in newRepresentativePrototypeHashes)
                 THEN tick ELSE ps.prototypeHistory[h]]
        h2 == [h \in (DOMAIN h1) \cup newOtherPrototypeHashes
                        \cup newRepresentativePrototypeHashes |->
                 IF h \in DOMAIN h1 THEN h1[h] ELSE tick]
    IN  [ps |-> [ps EXCEPT
                    !.prototypes = newPrototypes,
                    !.representativePrototypeHashes = newRepresentativePrototypeHashes,
                    !.otherPrototypeHashes = newOtherPrototypeHashes,
                    !.prototypeHistory = h2,
                    !.lastUpdate = tick],
         removed |-> removedPrototypeHashes]

(***************************************************************************)
(* PrototypeFrequencyStore (library/storage/prototype_frequencies.py).     *)
(* A frequency is <<FALSE, 0>> for None and <<TRUE, n>> for the count n.   *)
(***************************************************************************)
NoVotes == <<FALSE, 0>>

PrototypeFrequencyStore(numPrototypes) ==
    [frequencies |-> << >>,
     numPrototypes |-> numPrototypes,
     totalObservations |-> 0]

closestPrototypeObservedNoTotal(fs, prototypeHash, numVotes) ==
    [fs EXCEPT !.frequencies[prototypeHash] =
                   IF @[1] THEN <<TRUE, @[2] + numVotes>> ELSE <<TRUE, numVotes>>]

closestPrototypeObserved(fs, prototypeHash, numVotes) ==
    [fs EXCEPT !.frequencies[prototypeHash] =
                   IF @[1] THEN <<TRUE, @[2] + numVotes>> ELSE <<TRUE, numVotes>>,
               !.totalObservations = @ + numVotes]

(* getWeight divides by totalObservations whenever the count is defined.   *)
getWeightFails(fs, prototypeHash) ==
    \/ prototypeHash \notin DOMAIN fs.frequencies
    \/ Cardinality(DOMAIN fs.frequencies) # fs.numPrototypes
    \/ (fs.frequencies[prototypeHash][1] /\ fs.totalObservations = 0)

getWeight(fs, prototypeHash) ==
    IF ~fs.frequencies[prototypeHash][1] THEN RInt(0)
    ELSE Rat(fs.frequencies[prototypeHash][2], fs.totalObservations)

initializePrototype(fs, prototypeHash) ==
    [fs EXCEPT !.frequencies = SetKey(@, prototypeHash, NoVotes)]

(* Lookup of a pair in either orientation, as the frequency store does it. *)
EitherKey(distances, a, b) ==
    IF HasKey(distances, a, b) THEN GetKey(distances, a, b)
    ELSE GetKey(distances, b, a)

computeSumOfDistances(prototypeHashes, distances) ==
    LET pairs == SetOrder({a * (NumHashes + 1) + b : a, b \in prototypeHashes})
        RECURSIVE Sum(_)
        Sum(s) == IF s = << >> THEN 0
                  ELSE LET a == Head(s) \div (NumHashes + 1)
                           b == Head(s) % (NumHashes + 1)
                       IN  (IF a = b THEN 0 ELSE EitherKey(distances, a, b))
                               + Sum(Tail(s))
    IN  Sum(pairs)

FrequencyStoreRemovePrototypeKeepsKey(fs, toRemoveHash) ==
    [fs EXCEPT !.totalObservations =
                   IF fs.frequencies[toRemoveHash][1]
                   THEN @ - fs.frequencies[toRemoveHash][2] ELSE @]

FrequencyStoreRemovePrototype(fs, toRemoveHash) ==
    [fs EXCEPT !.frequencies = DropKey(@, toRemoveHash),
               !.totalObservations =
                   IF fs.frequencies[toRemoveHash][1]
                   THEN @ - fs.frequencies[toRemoveHash][2] ELSE @]

(* The normaliser np.sum(1 - fractions) of one removed prototype, as the   *)
(* rational (p*S - sum of d(removed, n_i)) / S.                            *)
FractionsSum(newPrototypeHashes, toRemove, distances, sumOfDistances) ==
    LET RECURSIVE Sum(_)
        Sum(s) == IF s = << >> THEN RInt(0)
                  ELSE RAdd(RSub(RInt(1), Rat(EitherKey(distances, toRemove, Head(s)), sumOfDistances)),
                            Sum(Tail(s)))
    IN  Sum(SetOrder(newPrototypeHashes))

(* The votes one new prototype receives from a removed one:                *)
(* int(fraction * numVotes).  The fractions are computed exactly here; the *)
(* program computes them in double precision, which gives the same integer *)
(* for the distances and votes of FreqDistVals, DistVals and EvictDistVals.*)
TransferredVotes(newPrototypeHashes, toRemove, prototypeHash, numVotes, distances, sumOfDistances) ==
    LET fraction == RSub(RInt(1), Rat(EitherKey(distances, toRemove, prototypeHash), sumOfDistances))
        normalised == RDiv(fraction, FractionsSum(newPrototypeHashes, toRemove, distances, sumOfDistances))
    IN  RTrunc(RMul(normalised, RInt(numVotes)))


RECURSIVE DistributeOne(_, _, _, _, _, _, _)
DistributeOne(fs, todo, newPrototypeHashes, toRemove, numVotes, distances, sumOfDistances) ==
    IF todo = << >> THEN fs
    ELSE DistributeOne(
            closestPrototypeObserved(fs, Head(todo),
                TransferredVotes(newPrototypeHashes, toRemove, Head(todo), numVotes, distances, sumOfDistances)),
            Tail(todo), newPrototypeHashes, toRemove, numVotes, distances, sumOfDistances)

(* The votes _removePrototype returns: 0 for a count of None.              *)
RemovedVotes(fs, toRemoveHash) ==
    IF fs.frequencies[toRemoveHash][1] THEN fs.frequencies[toRemoveHash][2] ELSE 0

RECURSIVE DistributeAll(_, _, _, _, _)
DistributeAll(fs, todo, newPrototypeHashes, distances, sumOfDistances) ==
    IF todo = << >> THEN fs
    ELSE LET numVotes == RemovedVotes(fs, Head(todo))
             removed == FrequencyStoreRemovePrototype(fs, Head(todo))
             given == IF numVotes = 0 THEN removed
                      ELSE DistributeOne(removed, SetOrder(newPrototypeHashes), newPrototypeHashes,
                                         Head(todo), numVotes, distances, sumOfDistances)
         IN  DistributeAll(given, Tail(todo), newPrototypeHashes, distances, sumOfDistances)

_distributeVotes(fs, newPrototypeHashes, removedPrototypeHashes, distances) ==
    DistributeAll(fs, SetOrder(removedPrototypeHashes), newPrototypeHashes, distances,
                  computeSumOfDistances(newPrototypeHashes, distances))

(* _distributeVotes raises when the fractions of a removed prototype with  *)
(* votes sum to zero: the normalised fractions are then inf or nan, and    *)
(* int() of them raises.                                                   *)
_distributeVotesFails(fs, newPrototypeHashes, removedPrototypeHashes, distances) ==
    \E h \in removedPrototypeHashes :
        /\ RemovedVotes(fs, h) # 0
        /\ FractionsSum(newPrototypeHashes, h, distances,
                        computeSumOfDistances(newPrototypeHashes, distances))[1] = 0

RECURSIVE InitializeAll(_, _)
InitializeAll(fs, todo) ==
    IF todo = << >> THEN fs
    ELSE InitializeAll([fs EXCEPT !.frequencies = SetKey(@, Head(todo), NoVotes)], Tail(todo))

FrequencyStoreUpdatePrototypes(fs, newPrototypeHashes, addedPrototypeHashes, removedPrototypeHashes, distances) ==
    _distributeVotes(InitializeAll(fs, SetOrder(addedPrototypeHashes)),
                     newPrototypeHashes, removedPrototypeHashes, distances)

(***************************************************************************)
(* ClusterStore (library/storage/cluster.py).  An operation that reads a   *)
(* value and memoises on the way returns [c |-> the cluster afterwards,    *)
(* v |-> the value].                                                       *)
(***************************************************************************)
ClusterStore(identifier, numRepresentativePrototypes, numPrototypes, tick) ==
    [averageDistance |-> None,
     averageDistanceFromRepresentativeToNonRepresentative |-> None,
     averageRepresentativeness |-> None,
     averageSumOfDistances |-> None,
     distances |-> << >>,
     error |-> None,
     identifier |-> identifier,
     prototypeFrequencies |-> PrototypeFrequencyStore(numPrototypes),
     prototypes |-> PrototypeStore(numRepresentativePrototypes, numPrototypes, tick),
     sumsOfDistances |-> << >>,
     upperBound |-> None]

(* pairwiseDistanceOf storing the computed distance under the requested    *)
(* orientation only.                                                       *)
pairwiseDistanceOfOneWay(c, sequenceOneHash, sequenceTwoHash, D) ==
    IF sequenceOneHash = sequenceTwoHash THEN [c |-> c, v |-> 0]
    ELSE IF HasKey(c.distances, sequenceOneHash, sequenceTwoHash)
    THEN [c |-> c, v |-> GetKey(c.distances, sequenceOneHash, sequenceTwoHash)]
    ELSE IF HasKey(c.distances, sequenceTwoHash, sequenceOneHash)
    THEN [c |-> c, v |-> GetKey(c.distances, sequenceTwoHash, sequenceOneHash)]
    ELSE LET result == calculateDistance(D, sequenceOneHash, sequenceTwoHash)
         IN  [c |-> [c EXCEPT !.distances =
                        PutKey(@, sequenceOneHash, sequenceTwoHash, result)],
              v |-> result]

pairwiseDistanceOf(c, sequenceOneHash, sequenceTwoHash, D) ==
    IF sequenceOneHash = sequenceTwoHash THEN [c |-> c, v |-> 0]
    ELSE IF HasKey(c.distances, sequenceOneHash, sequenceTwoHash)
    THEN [c |-> c, v |-> GetKey(c.distances, sequenceOneHash, sequenceTwoHash)]
    ELSE IF HasKey(c.distances, sequenceTwoHash, sequenceOneHash)
    THEN [c |-> c, v |-> GetKey(c.distances, sequenceTwoHash, sequenceOneHash)]
    ELSE LET result == calculateDistance(D, sequenceOneHash, sequenceTwoHash)
         IN  [c |-> [c EXCEPT !.distances =
                        PutKey(PutKey(@, sequenceOneHash, sequenceTwoHash, result),
                               sequenceTwoHash, sequenceOneHash, result)],
              v |-> result]

RECURSIVE SumPairwise(_, _, _, _)
SumPairwise(c, sequenceHash, comparePrototypeHashes, D) ==
    IF comparePrototypeHashes = << >> THEN [c |-> c, v |-> 0]
    ELSE Let(pairwiseDistanceOf(c, sequenceHash, Head(comparePrototypeHashes), D), LAMBDA one :
         Let(SumPairwise(one.c, sequenceHash, Tail(comparePrototypeHashes), D), LAMBDA rest :
         [c |-> rest.c, v |-> one.v + rest.v]))

_sumOfDistancesOf(c, sequenceHash, representative, onlyNonRepresentativePrototypes, D) ==
    SumPairwise(c, sequenceHash,
                IF representative THEN SetOrder(c.prototypes.representativePrototypeHashes)
                ELSE IF onlyNonRepresentativePrototypes
                     THEN SetOrder(c.prototypes.otherPrototypeHashes)
                     ELSE c.prototypes.prototypes,
                D)

Memoise(c, key, r) == [c |-> [r.c EXCEPT !.sumsOfDistances = SetKey(@, key, r.v)], v |-> r.v]

sumOfDistancesOf(c, sequenceHash, representative, D) ==
    IF representative
    THEN IF <<sequenceHash, TRUE>> \in DOMAIN c.sumsOfDistances
         THEN [c |-> c, v |-> c.sumsOfDistances[<<sequenceHash, TRUE>>]]
         ELSE Memoise(c, <<sequenceHash, TRUE>>, _sumOfDistancesOf(c, sequenceHash, TRUE, FALSE, D))
    ELSE IF <<sequenceHash, FALSE>> \in DOMAIN c.sumsOfDistances
         THEN [c |-> c, v |-> c.sumsOfDistances[<<sequenceHash, FALSE>>]]
         ELSE Memoise(c, <<sequenceHash, FALSE>>,
                IF <<sequenceHash, TRUE>> \in DOMAIN c.sumsOfDistances
                THEN Let(_sumOfDistancesOf(c, sequenceHash, FALSE, TRUE, D), LAMBDA other :
                     [c |-> other.c,
                      v |-> c.sumsOfDistances[<<sequenceHash, TRUE>>] + other.v])
                ELSE _sumOfDistancesOf(c, sequenceHash, FALSE, FALSE, D))

RECURSIVE SumOfSums(_, _, _, _)
SumOfSums(c, prototypeHashes, representative, D) ==
    IF prototypeHashes = << >> THEN [c |-> c, v |-> 0]
    ELSE Let(sumOfDistancesOf(c, Head(prototypeHashes), representative, D), LAMBDA one :
         Let(SumOfSums(one.c, Tail(prototypeHashes), representative, D), LAMBDA rest :
         [c |-> rest.c, v |-> one.v + rest.v]))

_calculateAverageSumOfDistances(c, representative, D) ==
    Let(SumOfSums(c,
            IF representative THEN SetOrder(c.prototypes.representativePrototypeHashes)
            ELSE c.prototypes.prototypes,
            representative, D), LAMBDA total :
    [c |-> total.c,
     v |-> Rat(total.v, IF representative THEN c.prototypes.numRepresentativePrototypes
                        ELSE c.prototypes.numPrototypes)])

averageSumOfDistances(c, D) ==
    IF c.averageSumOfDistances # None THEN [c |-> c, v |-> c.averageSumOfDistances]
    ELSE Let(_calculateAverageSumOfDistances(c, FALSE, D), LAMBDA r :
         [c |-> [r.c EXCEPT !.averageSumOfDistances = r.v], v |-> r.v])

averageDistance(c, D) ==
    IF c.averageDistance # None THEN [c |-> c, v |-> c.averageDistance]
    ELSE Let(averageSumOfDistances(c, D), LAMBDA r :
         Let(RDiv(r.v, RInt(c.prototypes.numPrototypes - 1)), LAMBDA v :
         [c |-> [r.c EXCEPT !.averageDistance = v], v |-> v]))

representativenessOfSequence(c, sequenceHash, D) ==
    Let(sumOfDistancesOf(c, sequenceHash, FALSE, D), LAMBDA sum :
    Let(averageSumOfDistances(sum.c, D), LAMBDA avg :
    [c |-> avg.c, v |-> RDiv(avg.v, RInt(2 * sum.v))]))

RECURSIVE SumRepresentativeness(_, _, _)
SumRepresentativeness(c, prototypeHashes, D) ==
    IF prototypeHashes = << >> THEN [c |-> c, v |-> RInt(0)]
    ELSE Let(representativenessOfSequence(c, Head(prototypeHashes), D), LAMBDA one :
         Let(SumRepresentativeness(one.c, Tail(prototypeHashes), D), LAMBDA rest :
         [c |-> rest.c, v |-> RAdd(one.v, rest.v)]))

_calculateAverageRepresentativeness(c, D) ==
    Let(SumRepresentativeness(c, SetOrder(c.prototypes.representativePrototypeHashes), D), LAMBDA r :
    [c |-> r.c, v |-> RDiv(r.v, RInt(c.prototypes.numRepresentativePrototypes))])

averageRepresentativeness(c, D) ==
    IF c.averageRepresentativeness # None THEN [c |-> c, v |-> c.averageRepresentativeness]
    ELSE Let(_calculateAverageRepresentativeness(c, D), LAMBDA r :
         [c |-> [r.c EXCEPT !.averageRepresentativeness = r.v], v |-> r.v])

RECURSIVE SumToNonRepresentative(_, _, _)
SumToNonRepresentative(c, prototypeHashes, D) ==
    IF prototypeHashes = << >> THEN [c |-> c, v |-> 0]
    ELSE Let(_sumOfDistancesOf(c, Head(prototypeHashes), FALSE, TRUE, D), LAMBDA one :
         Let(SumToNonRepresentative(one.c, Tail(prototypeHashes), D), LAMBDA rest :
         [c |-> rest.c, v |-> one.v + rest.v]))

_calculateAverageSumOfDistancesRepresentativeToNonRepresentative(c, D) ==
    Let(SumToNonRepresentative(c, SetOrder(c.prototypes.representativePrototypeHashes), D), LAMBDA r :
    [c |-> r.c, v |-> Rat(r.v, c.prototypes.numRepresentativePrototypes)])

averageDistanceFromRepresentativeToNonRepresentative(c, D) ==
    IF c.averageDistanceFromRepresentativeToNonRepresentative # None
    THEN [c |-> c, v |-> c.averageDistanceFromRepresentativeToNonRepresentative]
    ELSE Let(_calculateAverageSumOfDistancesRepresentativeToNonRepresentative(c, D), LAMBDA r :
         Let(RDiv(r.v, RInt(numOtherPrototypes(c.prototypes))), LAMBDA v :
         [c |-> [r.c EXCEPT !.averageDistanceFromRepresentativeToNonRepresentative = v],
          v |-> v]))

error(c, D) ==
    IF c.error # None THEN [c |-> c, v |-> c.error]
    ELSE Let(averageRepresentativeness(c, D), LAMBDA rep :
         Let(averageDistanceFromRepresentativeToNonRepresentative(rep.c, D), LAMBDA far :
         Let(RMul(RSub(RInt(1), rep.v), far.v), LAMBDA v :
         [c |-> [far.c EXCEPT !.error = v], v |-> v])))

upperBound(c, D) ==
    IF c.upperBound # None THEN [c |-> c, v |-> c.upperBound]
    ELSE Let(averageDistance(c, D), LAMBDA avg :
         Let(error(avg.c, D), LAMBDA err :
         Let(RAdd(avg.v, err.v), LAMBDA v :
         [c |-> [err.c EXCEPT !.upperBound = v], v |-> v])))

computeAverageDistance(c, sequenceHash, representative, D) ==
    Let(sumOfDistancesOf(c, sequenceHash, representative, D), LAMBDA sum :
    [c |-> sum.c,
     v |-> Rat(sum.v, IF representative THEN c.prototypes.numRepresentativePrototypes
                      ELSE c.prototypes.numPrototypes)])

isRepresentativeEnough(c, minimumRepresentativeness, D) ==
    Let(averageRepresentativeness(c, D), LAMBDA rep :
    [c |-> rep.c, v |-> RLe(minimumRepresentativeness, rep.v)])

(* isCandidate: v is <<distance, candidacy, isApproximation>>.             *)
isCandidate(c, sequenceHash, minimumRepresentativeness, clusterAssignment, D) ==
    Let(IF clusterAssignment
        THEN isRepresentativeEnough(c, minimumRepresentativeness, D)
        ELSE [c |-> c, v |-> FALSE], LAMBDA enough :
    IF clusterAssignment /\ enough.v
    THEN Let(computeAverageDistance(enough.c, sequenceHash, TRUE, D), LAMBDA approximatedDistance :
         Let(upperBound(approximatedDistance.c, D), LAMBDA bound :
         [c |-> bound.c,
          v |-> <<approximatedDistance.v, RLt(approximatedDistance.v, bound.v), TRUE>>]))
    ELSE Let(computeAverageDistance(enough.c, sequenceHash, FALSE, D), LAMBDA accurateDistance :
         Let(averageDistance(accurateDistance.c, D), LAMBDA avg :
         [c |-> avg.c,
          v |-> <<accurateDistance.v, RLt(accurateDistance.v, avg.v), FALSE>>])))


(* The cache entries processSequenceIndefinitely looks at: those with the  *)
(* sequence at one end and a current prototype at an end.                  *)
VoteEntries(c, sequenceHash) ==
    SelectSeq(c.distances,
              LAMBDA e : /\ (e[1] = sequenceHash \/ e[2] = sequenceHash)
                         /\ (e[1] \in Range(c.prototypes.prototypes)
                                \/ e[2] \in Range(c.prototypes.prototypes)))

(* MinEntry without the search for the minimum: the first entry.           *)
FirstEntry(entries) == entries[1]

(* The first entry of minimal distance (the comparison is strict).         *)
MinEntry(entries) ==
    LET i == CHOOSE i \in 1..Len(entries) :
                /\ \A j \in 1..Len(entries) : entries[i][3] <= entries[j][3]
                /\ \A j \in 1..(i - 1) : entries[j][3] > entries[i][3]
    IN  entries[i]

PurgeSequence(c, sequenceHash) ==
    [c EXCEPT
        !.distances = SelectSeq(@, LAMBDA e : e[1] # sequenceHash /\ e[2] # sequenceHash),
        !.sumsOfDistances = DropKey(DropKey(@, <<sequenceHash, TRUE>>), <<sequenceHash, FALSE>>)]

processSequenceIndefinitely(c, sequenceHash) ==
    LET entries == VoteEntries(c, sequenceHash)
        minKey == MinEntry(entries)
        voted == IF entries = << >> THEN c
                 ELSE [c EXCEPT !.prototypeFrequencies =
                          closestPrototypeObserved(@,
                              IF minKey[1] # sequenceHash THEN minKey[1] ELSE minKey[2], 1)]
    IN  PurgeSequence(voted, sequenceHash)

(* One `if both orientations are absent` step of _computeRequiredDistances: *)
(* the distance measure is called directly and both orientations stored.   *)
Require(distances, a, b, D) ==
    IF ~HasKey(distances, a, b) /\ ~HasKey(distances, b, a)
    THEN PutKey(PutKey(distances, a, b, calculateDistance(D, a, b)),
                b, a, calculateDistance(D, a, b))
    ELSE distances

RECURSIVE RequireAll(_, _, _, _)
RequireAll(distances, a, others, D) ==
    IF others = << >> THEN distances
    ELSE RequireAll(Require(distances, a, Head(others), D), a, Tail(others), D)

RECURSIVE RequireEach(_, _, _, _, _)
RequireEach(distances, todo, newPrototypes, removed, D) ==
    IF todo = << >> THEN distances
    ELSE RequireEach(
            RequireAll(RequireAll(distances, Head(todo), removed, D),
                       Head(todo), newPrototypes, D),
            Tail(todo), newPrototypes, removed, D)

_computeRequiredDistances(c, newPrototypes, removedPrototypeHashes, D) ==
    [c EXCEPT !.distances =
        RequireEach(@, newPrototypes, newPrototypes, SetOrder(removedPrototypeHashes), D)]

Invalidate(c) ==
    [c EXCEPT !.averageSumOfDistances = None,
              !.averageDistance = None,
              !.upperBound = None,
              !.error = None,
              !.averageRepresentativeness = None,
              !.averageDistanceFromRepresentativeToNonRepresentative = None,
              !.sumsOfDistances = << >>]

(* ClusterStore.updatePrototypes: [c |-> the cluster afterwards,           *)
(* removed |-> the returned set, fails |-> whether the call raises].       *)
updatePrototypes(c, newPrototypes, newOtherPrototypeHashes, newRepresentativePrototypeHashes, tick, D) ==
    LET newPrototypeHashes == Range(newPrototypes)
        oldPrototypeHashes == DOMAIN c.prototypeFrequencies.frequencies
        addedPrototypeHashes == newPrototypeHashes \ oldPrototypeHashes
        removedPrototypeHashes == oldPrototypeHashes \ newPrototypeHashes
        fails ==
            \/ Cardinality(oldPrototypeHashes) # c.prototypeFrequencies.numPrototypes
            \/ Cardinality(addedPrototypeHashes) # Cardinality(removedPrototypeHashes)
            \/ Len(newPrototypes) # c.prototypes.numPrototypes
            \/ Cardinality(newOtherPrototypeHashes) # numOtherPrototypes(c.prototypes)
            \/ Cardinality(newRepresentativePrototypeHashes) # c.prototypes.numRepresentativePrototypes
            \/ newPrototypeHashes # newOtherPrototypeHashes \cup newRepresentativePrototypeHashes
            \/ newOtherPrototypeHashes \cap newRepresentativePrototypeHashes # {}
    IN  Let(_computeRequiredDistances(c, newPrototypes, removedPrototypeHashes, D), LAMBDA required :
        Let(PrototypeStoreUpdatePrototypes(required.prototypes, newPrototypes,
                newOtherPrototypeHashes, newRepresentativePrototypeHashes, tick), LAMBDA result :
        Let([required EXCEPT
                !.prototypeFrequencies =
                    FrequencyStoreUpdatePrototypes(@, newPrototypeHashes, addedPrototypeHashes,
                                                   removedPrototypeHashes, required.distances),
                !.prototypes = result.ps], LAMBDA updated :
        IF fails \/ _distributeVotesFails(c.prototypeFrequencies, newPrototypeHashes,
                                          removedPrototypeHashes, required.distances)
        THEN [c |-> c, removed |-> {}, fails |-> TRUE]
        ELSE [c |-> IF result.removed # {} THEN Invalidate(updated) ELSE updated,
              removed |-> result.removed,
              fails |-> FALSE])))

(***************************************************************************)
(* LinearPrototypeValue.evaluate (library/heuristics/                      *)
(* linear_prototype_value.py).                                             *)
(***************************************************************************)
(* evaluate with the two weights exchanged.                                *)
evaluateExchanged(ratio, representativeness, weight) ==
    LET weightRatio == Rat(1, ratio + 1)
        representativenessRatio == RSub(RInt(1), weightRatio)
    IN  RAdd(RMul(weightRatio, representativeness), RMul(representativenessRatio, weight))

evaluate(ratio, representativeness, weight) ==
    LET weightRatio == Rat(1, ratio + 1)
        representativenessRatio == RSub(RInt(1), weightRatio)
    IN  RAdd(RMul(representativenessRatio, representativeness), RMul(weightRatio, weight))

(***************************************************************************)
(* list.sort(key = the value at position k): stable, ascending.            *)
(***************************************************************************)
RECURSIVE InsertByKeyBeforeEqual(_, _, _)
InsertByKeyBeforeEqual(sorted, x, k) ==
    IF sorted = << >> THEN <<x>>
    ELSE IF RLe(x[k], sorted[Len(sorted)][k])
         THEN Append(InsertByKeyBeforeEqual(SubSeq(sorted, 1, Len(sorted) - 1), x, k),
                     sorted[Len(sorted)])
         ELSE Append(sorted, x)

(* list.sort(key = ...) is stable: an element goes after the elements of   *)
(* equal key that precede it in the list.                                  *)
RECURSIVE InsertByKey(_, _, _)
InsertByKey(sorted, x, k) ==
    IF sorted = << >> THEN <<x>>
    ELSE IF RLt(x[k], sorted[Len(sorted)][k])
         THEN Append(InsertByKey(SubSeq(sorted, 1, Len(sorted) - 1), x, k), sorted[Len(sorted)])
         ELSE Append(sorted, x)

RECURSIVE SortByKey(_, _)
SortByKey(s, k) ==
    IF s = << >> THEN << >>
    ELSE InsertByKey(SortByKey(SubSeq(s, 1, Len(s) - 1), k), s[Len(s)], k)

(* s[-n:] and s[-n:-m] of Python for 0 < m <= n.                           *)
FirstN(s, n) == SubSeq(s, 1, IF Len(s) > n THEN n ELSE Len(s))

LastN(s, n) == SubSeq(s, IF Len(s) > n THEN Len(s) - n + 1 ELSE 1, Len(s))
Between(s, n, m) == SubSeq(s, IF Len(s) > n THEN Len(s) - n + 1 ELSE 1, Len(s) - m)


(***************************************************************************)
(* SeqClu (SeqClu.py), static methods.  `clusters` is the list of          *)
(* clusters, indexed from 0; a distances list holds entries                *)
(* <<cluster index, distance, error>>.                                     *)
(***************************************************************************)
isAmbiguous(distanceOne, errorOne, distanceTwo, errorTwo) ==
    RLe(RAbs(RSub(distanceOne, distanceTwo)), RMax(errorOne, errorTwo))

RECURSIVE AccurateLoop(_, _, _, _, _, _)
AccurateLoop(clusters, todo, sequenceHash, label, minDistance, D) ==
    IF todo = << >> THEN [clusters |-> clusters, label |-> label]
    ELSE Let(sumOfDistancesOf(clusters[Head(todo)], sequenceHash, FALSE, D), LAMBDA r :
         Let([clusters EXCEPT ![Head(todo)] = r.c], LAMBDA next :
         IF minDistance = -1 \/ r.v < minDistance
         THEN AccurateLoop(next, Tail(todo), sequenceHash,
                           next[Head(todo)].identifier, r.v, D)
         ELSE AccurateLoop(next, Tail(todo), sequenceHash, label, minDistance, D)))

(* minDistance = -1 stands for np.inf.                                     *)
assignToClusterAccurate(clusters, ambiguousClusters, sequenceHash, D) ==
    AccurateLoop(clusters, ambiguousClusters, sequenceHash, -1, -1, D)

assignToCluster(clusters, sequenceHash, distances, clusterAssignment, D) ==
    LET sorted == SortByKey(distances, 2)
        best == sorted[1]
        result == {best[1]} \cup
                  {sorted[i][1] : i \in {j \in 2..Len(sorted) :
                        isAmbiguous(best[2], best[3], sorted[j][2], sorted[j][3])}}
    IN  IF ~clusterAssignment
        THEN [clusters |-> clusters, label |-> best[1], byApproximation |-> FALSE]
        ELSE IF Cardinality(result) = 1
        THEN [clusters |-> clusters, label |-> best[1], byApproximation |-> TRUE]
        ELSE Let(assignToClusterAccurate(clusters, SetOrder(result), sequenceHash, D), LAMBDA a :
             [clusters |-> a.clusters, label |-> a.label, byApproximation |-> FALSE])

RECURSIVE DistanceLoop(_, _, _, _, _)
DistanceLoop(clusters, i, sequenceHash, clusterAssignment, D) ==
    IF i \notin DOMAIN clusters THEN [clusters |-> clusters, distances |-> << >>]
    ELSE Let(computeAverageDistance(clusters[i], sequenceHash, clusterAssignment, D), LAMBDA distance :
         Let(IF clusterAssignment THEN error(distance.c, D)
             ELSE [c |-> distance.c, v |-> RInt(0)], LAMBDA err :
         Let(DistanceLoop([clusters EXCEPT ![i] = err.c], i + 1,
                          sequenceHash, clusterAssignment, D), LAMBDA rest :
         [clusters |-> rest.clusters,
          distances |-> <<<<clusters[i].identifier, distance.v, err.v>>>> \o rest.distances])))

computeDistanceToClusters(clusters, sequenceHash, clusterAssignment, D) ==
    DistanceLoop(clusters, 0, sequenceHash, clusterAssignment, D)

RECURSIVE CandidacyLoop(_, _, _, _, _, _, _)
CandidacyLoop(candidates, clusters, i, sequenceHash, minimumRepresentativeness, clusterAssignment, D) ==
    IF i \notin DOMAIN clusters
    THEN [clusters |-> clusters, distances |-> << >>, candidateFor |-> {}]
    ELSE LET skip == \/ sequenceHash \in Range(clusters[i].prototypes.prototypes)
                     \/ \E k \in 1..Len(candidates) : candidates[k][1] = sequenceHash
         IN  Let(isCandidate(clusters[i], sequenceHash, minimumRepresentativeness,
                             clusterAssignment, D), LAMBDA r :
             Let(IF r.v[3] THEN error(r.c, D) ELSE [c |-> r.c, v |-> RInt(0)], LAMBDA err :
             Let(CandidacyLoop(candidates, [clusters EXCEPT ![i] = err.c], i + 1,
                               sequenceHash, minimumRepresentativeness,
                               clusterAssignment, D), LAMBDA rest :
             [clusters |-> rest.clusters,
              distances |-> <<<<clusters[i].identifier, r.v[1], err.v>>>> \o rest.distances,
              candidateFor |-> (IF ~skip /\ r.v[2] THEN {clusters[i].identifier} ELSE {})
                                  \cup rest.candidateFor])))

determineCandidacy(candidates, clusters, sequenceHash, minimumRepresentativeness, clusterAssignment, D) ==
    CandidacyLoop(candidates, clusters, 0, sequenceHash, minimumRepresentativeness,
                  clusterAssignment, D)

initializeClusters(numClusters, numRepresentativePrototypes, numPrototypes, tick) ==
    [identifier \in 0..(numClusters - 1) |->
        ClusterStore(identifier, numRepresentativePrototypes, numPrototypes, tick)]

(* The values of the candidates, in the order given: entries               *)
(* <<hash, value>>.                                                        *)
RECURSIVE CandidateValues(_, _, _, _)
CandidateValues(c, candidates, ratio, D) ==
    IF candidates = << >> THEN [c |-> c, values |-> << >>]
    ELSE Let(representativenessOfSequence(c, Head(candidates), D), LAMBDA r :
         Let(CandidateValues(r.c, Tail(candidates), ratio, D), LAMBDA rest :
         [c |-> rest.c,
          values |-> <<<<Head(candidates), evaluate(ratio, r.v, RInt(0))>>>> \o rest.values]))

RECURSIVE IncumbentValues(_, _, _, _)
IncumbentValues(c, prototypes, ratio, D) ==
    IF prototypes = << >> THEN [c |-> c, values |-> << >>]
    ELSE Let(representativenessOfSequence(c, Head(prototypes), D), LAMBDA r :
         Let(IncumbentValues(r.c, Tail(prototypes), ratio, D), LAMBDA rest :
         [c |-> rest.c,
          values |-> <<<<Head(prototypes),
                         evaluate(ratio, r.v, getWeight(c.prototypeFrequencies, Head(prototypes)))>>>>
                        \o rest.values]))

(* processCandidatesForCluster: [c |-> the cluster afterwards, removed |-> *)
(* the returned set, fails |-> whether the call raises, values |-> the     *)
(* list prototypeValues as built, before it is sorted].                    *)
processCandidatesForCluster(c, candidates, numPrototypes, numRepresentativePrototypes, ratio, tick, D) ==
    LET prototypes == c.prototypes.prototypes
        weightFails == \E h \in Range(prototypes) : getWeightFails(c.prototypeFrequencies, h)
        hashesOf(s) == [i \in 1..Len(s) |-> s[i][1]]
    IN  Let(CandidateValues(c, candidates, ratio, D), LAMBDA cv :
        Let(IncumbentValues(cv.c, prototypes, ratio, D), LAMBDA iv :
        Let(SortByKey(cv.values \o iv.values, 2), LAMBDA prototypeValues :
        IF weightFails THEN [c |-> c, removed |-> {}, fails |-> TRUE, values |-> << >>]
        ELSE Let(updatePrototypes(iv.c,
                    hashesOf(LastN(prototypeValues, numPrototypes)),
                    Range(hashesOf(Between(prototypeValues, numPrototypes, numRepresentativePrototypes))),
                    Range(hashesOf(LastN(prototypeValues, numRepresentativePrototypes))),
                    tick, D), LAMBDA u :
             [c |-> u.c, removed |-> u.removed, fails |-> u.fails,
              values |-> cv.values \o iv.values]))))


(***************************************************************************)
(* The state.                                                              *)
(***************************************************************************)
VARIABLES
    numClusters, numPrototypes, numRepresentativePrototypes, bufferSize,
    minimumRepresentativeness, ratio, clusterAssignment, buffering, maxPerTick,
    clusters, candidates, labels, clusteredByApproximation, bufferedSequences,
    numFullyProcessed, tick, finish,
    dist, delivered, currentIndex, sequencesToProcess, pc, raised, ingested,
    emptyBatches, peeks, duplicates, log, data

(* `data` is the data list of a FakeDataSource (SourceSpec); the other     *)
(* specifications take their stream from any source and leave it empty.    *)
config == <<numClusters, numPrototypes, numRepresentativePrototypes, bufferSize,
            minimumRepresentativeness, ratio, clusterAssignment, buffering, maxPerTick,
            data>>

(* The fields of the SeqClu object that processing a sequence can change.  *)
core == <<clusters, candidates, labels, clusteredByApproximation, bufferedSequences,
          numFullyProcessed>>

vars == <<config, core, tick, finish, dist, delivered, currentIndex,
          sequencesToProcess, pc, raised, ingested, emptyBatches, peeks,
          duplicates, log>>

(* `candidates` is the candidate store's dict in insertion order: entries  *)
(* <<hash, candidateFor, tick>>.                                           *)
CandidateHashes(cs) == {cs[i][1] : i \in 1..Len(cs)}

(* `log` is a history variable: what the last call of processSequence or   *)
(* forceProcessBuffer did, as the sequence of its events:                  *)
(*   "flush"  _processCandidates starts with the buffer `candidates`;      *)
(*   "select" processCandidatesForCluster was called for `cluster`;        *)
(*   "label"  _labelSequence labelled `hash`.                              *)
Self ==
    [clusters |-> clusters, real |-> clusters, candidates |-> candidates,
     labels |-> labels, clusteredByApproximation |-> clusteredByApproximation,
     bufferedSequences |-> bufferedSequences, numFullyProcessed |-> numFullyProcessed,
     raised |-> FALSE, log |-> << >>]

(* The side-band sequence store is never filled: its length is 0.         *)
bufferFullAbove(self) == Len(self.candidates) + 0 > bufferSize

bufferFull(self) == Len(self.candidates) + 0 >= bufferSize

fullyInitializedSome(self) ==
    \E i \in DOMAIN self.clusters : self.clusters[i].prototypes.fullyInitialized

fullyInitialized(self) ==
    \A i \in DOMAIN self.clusters : self.clusters[i].prototypes.fullyInitialized

alreadyProcessedNoLabels(self, sequenceHash) ==
    \/ \E i \in DOMAIN self.clusters :
            sequenceHash \in Range(self.clusters[i].prototypes.prototypes)
    \/ sequenceHash \in CandidateHashes(self.candidates)

alreadyProcessed(self, sequenceHash) ==
    \/ \E i \in DOMAIN self.clusters :
            sequenceHash \in Range(self.clusters[i].prototypes.prototypes)
    \/ sequenceHash \in CandidateHashes(self.candidates)
    \/ sequenceHash \in DOMAIN self.labels

(* The sum of the distances of a sequence to all prototypes of a cluster,  *)
(* from the distance measure itself.                                       *)
RECURSIVE SumDistances(_, _, _)
SumDistances(D, sequenceHash, prototypes) ==
    IF prototypes = << >> THEN 0
    ELSE calculateDistance(D, sequenceHash, Head(prototypes))
            + SumDistances(D, sequenceHash, Tail(prototypes))

LabelEvent(self, sequenceHash, averageDistances, a, D) ==
    [kind |-> "label", hash |-> sequenceHash, distances |-> averageDistances,
     label |-> a.label, byApproximation |-> a.byApproximation,
     entries |-> VoteEntries(a.clusters[a.label], sequenceHash),
     exact |-> [i \in DOMAIN self.clusters |->
                    SumDistances(D, sequenceHash, self.clusters[i].prototypes.prototypes)],
     computed |-> [i \in DOMAIN self.clusters |->
                    sumOfDistancesOf(self.clusters[i], sequenceHash, FALSE, D).v],
     representativeSum |-> [i \in DOMAIN self.clusters |->
                    SumDistances(D, sequenceHash,
                        SetOrder(self.clusters[i].prototypes.representativePrototypeHashes))],
     enough |-> [i \in DOMAIN self.clusters |->
                    isRepresentativeEnough(self.clusters[i], minimumRepresentativeness, D).v]]

(* finalLabels: a copy of labels in which every prototype of every cluster,*)
(* taken in cluster order, is given the class of its cluster.              *)
finalLabels(self) ==
    LET holders(h) == {i \in DOMAIN self.clusters :
                            h \in Range(self.clusters[i].prototypes.prototypes)}
        last(h) == CHOOSE i \in holders(h) : \A j \in holders(h) : j <= i
        held == UNION {Range(self.clusters[i].prototypes.prototypes) : i \in DOMAIN self.clusters}
    IN  [h \in (DOMAIN self.labels) \cup held |->
            IF h \in held THEN classes[self.clusters[last(h)].identifier + 1]
            ELSE self.labels[h]]

(* _labelSequence(clusters, sequence, averageDistances).  With persist the *)
(* clusters passed are self.clusters; without, they are the deep copies    *)
(* while the vote and the purge go to self.clusters (`real`).              *)
_labelSequence(self, persist, sequenceHash, averageDistances, D) ==
    Let(assignToCluster(self.clusters, sequenceHash, averageDistances, clusterAssignment, D), LAMBDA a :
    [self EXCEPT
        !.clusters = IF persist
                     THEN [a.clusters EXCEPT ![a.label] =
                                processSequenceIndefinitely(@, sequenceHash)]
                     ELSE a.clusters,
        !.real = IF persist THEN @
                 ELSE [@ EXCEPT ![a.label] = processSequenceIndefinitely(@, sequenceHash)],
        !.clusteredByApproximation = IF a.byApproximation THEN @ \cup {sequenceHash} ELSE @,
        !.labels = SetKey(@, sequenceHash, classes[a.label + 1]),
        !.numFullyProcessed = @ + 1,
        !.log = Append(@, LabelEvent(self, sequenceHash, averageDistances, a, D))])

LabelAll(labelsMap, hashes, class) ==
    [h \in (DOMAIN labelsMap) \cup hashes |-> IF h \in hashes THEN class ELSE labelsMap[h]]

Reverse(s) == [i \in 1..Len(s) |-> s[Len(s) + 1 - i]]

(* The event of one call of processCandidatesForCluster with result r;     *)
(* `reversed` is what the same call gives with the candidates in the       *)
(* opposite order.                                                         *)
SelectEvent(self, clusterIdx, candidatesForCluster, r, flushTick, D) ==
    [kind |-> "select", cluster |-> clusterIdx, candidates |-> candidatesForCluster,
     before |-> self.clusters[clusterIdx].prototypes.prototypes,
     representativeBefore |->
        self.clusters[clusterIdx].prototypes.representativePrototypeHashes,
     values |-> r.values, removed |-> r.removed,
     prototypes |-> r.c.prototypes.prototypes,
     representative |-> r.c.prototypes.representativePrototypeHashes,
     other |-> r.c.prototypes.otherPrototypeHashes,
     reversed |-> Let(processCandidatesForCluster(self.clusters[clusterIdx],
                        Reverse(candidatesForCluster), numPrototypes,
                        numRepresentativePrototypes, ratio, flushTick, D).c.prototypes, LAMBDA ps :
                  [prototypes |-> Range(ps.prototypes),
                   representative |-> ps.representativePrototypeHashes])]

(* The first loop of _processCandidates, from cluster clusterIdx on.       *)
RECURSIVE SelectLoop(_, _, _, _)
SelectLoop(self, clusterIdx, flushTick, D) ==
    IF clusterIdx >= numClusters \/ self.raised THEN self
    ELSE LET chosen == SelectSeq(self.candidates, LAMBDA e : clusterIdx \in e[2])
             candidatesForCluster == [i \in 1..Len(chosen) |-> chosen[i][1]]
         IN  IF candidatesForCluster = << >>
             THEN SelectLoop(self, clusterIdx + 1, flushTick, D)
             ELSE Let(processCandidatesForCluster(self.clusters[clusterIdx],
                        candidatesForCluster, numPrototypes, numRepresentativePrototypes,
                        ratio, flushTick, D), LAMBDA r :
                  IF r.fails THEN [self EXCEPT !.raised = TRUE]
                  ELSE SelectLoop(
                        [self EXCEPT !.clusters[clusterIdx] = r.c,
                                     !.labels = LabelAll(@, r.removed, classes[clusterIdx + 1]),
                                     !.log = Append(@, SelectEvent(self, clusterIdx,
                                                candidatesForCluster, r, flushTick, D))],
                        clusterIdx + 1, flushTick, D))

(* The second loop of _processCandidates over the keys still to do.        *)
RECURSIVE EmptyLoop(_, _, _, _)
EmptyLoop(self, persist, todo, D) ==
    IF todo = << >> \/ self.raised THEN self
    ELSE LET candidateHash == Head(todo)
             holders == {i \in DOMAIN self.clusters :
                            candidateHash \in Range(self.clusters[i].prototypes.prototypes)}
             first == CHOOSE i \in holders : \A j \in holders : i <= j
         IN  Let(IF holders # {}
                 THEN [self EXCEPT !.labels =
                        SetKey(@, candidateHash, classes[self.clusters[first].identifier + 1])]
                 ELSE Let(computeDistanceToClusters(self.clusters, candidateHash,
                                                    clusterAssignment, D), LAMBDA d :
                      _labelSequence([self EXCEPT !.clusters = d.clusters], persist,
                                     candidateHash, d.distances, D)), LAMBDA labelled :
             EmptyLoop([labelled EXCEPT !.candidates =
                            SelectSeq(@, LAMBDA e : e[1] # candidateHash)],
                       persist, Tail(todo), D))

_processCandidates(self, persist, flushTick, D) ==
    EmptyLoop(SelectLoop([self EXCEPT !.log = Append(@,
                                [kind |-> "flush", persist |-> persist,
                                 candidates |-> CandidateHashes(self.candidates)])],
                         0, flushTick, D),
              persist, [i \in 1..Len(self.candidates) |-> self.candidates[i][1]], D)

(* forceProcessBuffer(persist, tick): the SeqClu object afterwards; with   *)
(* persist = FALSE its field `clusters` holds the returned copies and      *)
(* `real` the object's own clusters.                                       *)
forceProcessBuffer(self, persist, flushTick, D) ==
    _processCandidates([self EXCEPT !.real = self.clusters], persist, flushTick, D)

(* The condition under which processSequence flushes after buffering a     *)
(* candidate: `if self.bufferFull or not self.buffering`.                  *)
flushesOnlyWhenFull(self) == bufferFull(self)

flushes(self) == bufferFull(self) \/ ~buffering

(* processSequence recording every candidate as buffered, whether or not   *)
(* buffering is enabled.                                                   *)
processSequenceRecordsAlways(self, sequenceHash, considerCandidacy, D) ==
    IF alreadyProcessed(self, sequenceHash) THEN self
    ELSE IF ~fullyInitialized(self)
    THEN LET i == CHOOSE i \in DOMAIN self.clusters :
                    /\ ~self.clusters[i].prototypes.fullyInitialized
                    /\ \A j \in DOMAIN self.clusters :
                        j < i => self.clusters[j].prototypes.fullyInitialized
             representative == ~self.clusters[i].prototypes.representativePrototypesInitialized
         IN  [self EXCEPT
                !.clusters[i].prototypes =
                    addPrototype(@, sequenceHash, representative, tick, NoHash),
                !.clusters[i].prototypeFrequencies = initializePrototype(@, sequenceHash)]
    ELSE IF considerCandidacy
    THEN Let(determineCandidacy(self.candidates, self.clusters, sequenceHash,
                    minimumRepresentativeness, clusterAssignment, D), LAMBDA r :
         Let([self EXCEPT !.clusters = r.clusters], LAMBDA determined :
         Let([determined EXCEPT
                !.bufferedSequences = @ \cup {sequenceHash},
                !.candidates = Append(@, <<sequenceHash, r.candidateFor, tick>>)], LAMBDA added :
         IF r.candidateFor # {}
         THEN IF flushes(added)
              THEN forceProcessBuffer(added, TRUE, tick, D)
              ELSE added
         ELSE _labelSequence(determined, TRUE, sequenceHash, r.distances, D))))
    ELSE Let(computeDistanceToClusters(self.clusters, sequenceHash, clusterAssignment, D), LAMBDA d :
         _labelSequence([self EXCEPT !.clusters = d.clusters], TRUE,
                        sequenceHash, d.distances, D))

(* processSequence(sequence, considerCandidacy): the SeqClu object         *)
(* afterwards.                                                             *)
processSequence(self, sequenceHash, considerCandidacy, D) ==
    IF alreadyProcessed(self, sequenceHash) THEN self
    ELSE IF ~fullyInitialized(self)
    THEN LET i == CHOOSE i \in DOMAIN self.clusters :
                    /\ ~self.clusters[i].prototypes.fullyInitialized
                    /\ \A j \in DOMAIN self.clusters :
                        j < i => self.clusters[j].prototypes.fullyInitialized
             representative == ~self.clusters[i].prototypes.representativePrototypesInitialized
         IN  [self EXCEPT
                !.clusters[i].prototypes =
                    addPrototype(@, sequenceHash, representative, tick, NoHash),
                !.clusters[i].prototypeFrequencies = initializePrototype(@, sequenceHash)]
    ELSE IF considerCandidacy
    THEN Let(determineCandidacy(self.candidates, self.clusters, sequenceHash,
                    minimumRepresentativeness, clusterAssignment, D), LAMBDA r :
         Let([self EXCEPT !.clusters = r.clusters], LAMBDA determined :
         Let([determined EXCEPT
                !.bufferedSequences = IF buffering THEN @ \cup {sequenceHash} ELSE @,
                !.candidates = Append(@, <<sequenceHash, r.candidateFor, tick>>)], LAMBDA added :
         IF r.candidateFor # {}
         THEN IF flushes(added)
              THEN forceProcessBuffer(added, TRUE, tick, D)
              ELSE added
         ELSE _labelSequence(determined, TRUE, sequenceHash, r.distances, D))))
    ELSE Let(computeDistanceToClusters(self.clusters, sequenceHash, clusterAssignment, D), LAMBDA d :
         _labelSequence([self EXCEPT !.clusters = d.clusters], TRUE,
                        sequenceHash, d.distances, D))


(***************************************************************************)
(* The environment: the stream and the distance measure.                   *)
(***************************************************************************)
Max(a, b) == IF a < b THEN b ELSE a
Min(a, b) == IF a < b THEN a ELSE b

(* The batches of n sequences the stream can deliver when `seen` distinct  *)
(* sequences were delivered before: each element repeats an earlier one or *)
(* is the next new one; at most `repeats` of them repeat an earlier one.    *)
RECURSIVE Batches(_, _, _)
Batches(n, seen, repeats) ==
    IF n = 0 THEN {<< >>}
    ELSE UNION {{<<h>> \o t :
                    t \in Batches(n - 1, Max(seen, h), IF h <= seen THEN repeats - 1 ELSE repeats)} :
                h \in (IF repeats > 0 THEN 1..seen ELSE {})
                        \cup (IF seen < NumHashes THEN {seen + 1} ELSE {})}

AllPrototypes(cs) == UNION {Range(cs[i].prototypes.prototypes) : i \in DOMAIN cs}

(* The pairs whose distance an operation on the sequences hs may ask for.  *)
RelevantPairs(hs) ==
    IF ~fullyInitialized(Self) THEN {}
    ELSE {{a, b} : a \in hs \cup CandidateHashes(candidates),
                   b \in AllPrototypes(clusters) \cup CandidateHashes(candidates) \cup hs}
         \cup UNION {{{a, b} : a, b \in Range(clusters[i].prototypes.prototypes)} :
                        i \in DOMAIN clusters}

Unresolved(hs) == {pr \in RelevantPairs(hs) : Cardinality(pr) = 2 /\ pr \notin DOMAIN dist}

CachePairs(cs) ==
    UNION {{{cs[i].distances[k][1], cs[i].distances[k][2]} : k \in 1..Len(cs[i].distances)} :
                i \in DOMAIN cs}

(* The resolved distances kept after a step: those resolved before and     *)
(* those a cluster's cache now holds.                                      *)
Retain(D, pairs) == [pr \in (DOMAIN dist) \cup (pairs \cap DOMAIN D) |-> D[pr]]

(***************************************************************************)
(* Init: the state after SeqClu.__init__, for each configuration.          *)
(***************************************************************************)
Init ==
    /\ numClusters \in ClusterCounts
    /\ numPrototypes \in PrototypeCounts
    /\ numRepresentativePrototypes \in RepresentativeCounts
    /\ 0 < numRepresentativePrototypes /\ numRepresentativePrototypes < numPrototypes
    /\ buffering \in BOOLEAN
    /\ bufferSize \in (IF buffering THEN BufferSizes ELSE NoBufferingSizes)
    /\ minimumRepresentativeness \in MinimumRepresentativenessValues
    /\ ratio \in Ratios
    /\ clusterAssignment \in BOOLEAN
    /\ maxPerTick \in MaxPerTickValues
    /\ clusters = initializeClusters(numClusters, numRepresentativePrototypes, numPrototypes, -1)
    /\ candidates = << >>
    /\ labels = << >>
    /\ clusteredByApproximation = {}
    /\ bufferedSequences = {}
    /\ numFullyProcessed = 0
    /\ tick = -1
    /\ finish = FALSE
    /\ dist = << >>
    /\ delivered = 0
    /\ currentIndex = 0
    /\ sequencesToProcess = << >>
    /\ pc = "loop"
    /\ raised = FALSE
    /\ ingested = {}
    /\ emptyBatches = 0
    /\ peeks = 0
    /\ duplicates = 0
    /\ log = << >>
    /\ data = << >>

(***************************************************************************)
(* execute() and _advanceTick().                                           *)
(***************************************************************************)
RECURSIVE MaxOf(_)
MaxOf(s) == IF s = << >> THEN 0 ELSE Max(Head(s), MaxOf(Tail(s)))

(* _advanceTick: the stream delivers a non-empty batch.                    *)
AdvanceTickBatch ==
    /\ pc = "loop" /\ sequencesToProcess = << >>
    /\ \E n \in 1..maxPerTick :
        /\ currentIndex + n <= MaxData
        /\ \E b \in Batches(n, delivered, MaxDuplicates - duplicates) :
            /\ sequencesToProcess' = b
            /\ delivered' = Max(delivered, MaxOf(b))
            /\ duplicates' = duplicates + n - (Max(delivered, MaxOf(b)) - delivered)
        /\ currentIndex' = currentIndex + n
    /\ tick' = tick + 1
    /\ log' = << >>
    /\ UNCHANGED <<config, core, finish, dist, pc, raised, ingested, emptyBatches, peeks>>

AdvanceTickEmptyKeepsLooping ==
    /\ pc = "loop" /\ sequencesToProcess = << >>
    /\ tick' = tick + 1
    /\ emptyBatches' = emptyBatches + 1
    /\ log' = << >>
    /\ UNCHANGED <<config, core, finish, dist, delivered, currentIndex,
                   sequencesToProcess, pc, raised, ingested, peeks, duplicates>>

(* _advanceTick: the stream is exhausted and delivers the empty batch;     *)
(* execute() leaves its loop.                                              *)
AdvanceTickEmpty ==
    /\ pc = "loop" /\ sequencesToProcess = << >>
    /\ tick' = tick + 1
    /\ emptyBatches' = emptyBatches + 1
    /\ pc' = "flush"
    /\ log' = << >>
    /\ UNCHANGED <<config, core, finish, dist, delivered, currentIndex,
                   sequencesToProcess, raised, ingested, peeks, duplicates>>

Store(r) ==
    /\ log' = r.log
    /\ clusters' = r.clusters
    /\ candidates' = r.candidates
    /\ labels' = r.labels
    /\ clusteredByApproximation' = r.clusteredByApproximation
    /\ bufferedSequences' = r.bufferedSequences
    /\ numFullyProcessed' = r.numFullyProcessed

(* One iteration of the loop of _advanceTick:                              *)
(* self.processSequence((sequenceHash, sequence), True).                   *)
ProcessSequenceStep ==
    /\ pc = "loop" /\ sequencesToProcess # << >>
    /\ LET sequenceHash == Head(sequencesToProcess)
       IN  \E e \in [Unresolved({sequenceHash}) -> DistVals] :
             LET D == dist @@ e
             IN  \E r \in {processSequence(Self, sequenceHash, TRUE, D)} :
                   IF r.raised
                   THEN /\ pc' = "raised" /\ raised' = TRUE
                        /\ UNCHANGED <<core, dist, sequencesToProcess, ingested, log>>
                   ELSE /\ Store(r)
                        /\ dist' = Retain(D, CachePairs(r.clusters))
                        /\ sequencesToProcess' = Tail(sequencesToProcess)
                        /\ ingested' = ingested \cup {sequenceHash}
                        /\ UNCHANGED <<pc, raised>>
    /\ UNCHANGED <<config, tick, finish, delivered, currentIndex, emptyBatches, peeks,
                   duplicates>>

FinalFlushLeavesBuffer ==
    /\ pc = "flush"
    /\ pc' = "done"
    /\ log' = << >>
    /\ UNCHANGED <<core, dist, raised>>
    /\ UNCHANGED <<config, tick, finish, delivered, currentIndex, sequencesToProcess,
                   ingested, emptyBatches, peeks, duplicates>>

(* The end of execute(): forceProcessBuffer(True, tick) if buffering.      *)
FinalFlush ==
    /\ pc = "flush"
    /\ IF buffering
       THEN \E e \in [Unresolved({}) -> DistVals] :
             LET D == dist @@ e
             IN  \E r \in {forceProcessBuffer(Self, TRUE, tick, D)} :
                   IF r.raised
                   THEN /\ pc' = "raised" /\ raised' = TRUE
                        /\ UNCHANGED <<core, dist, log>>
                   ELSE /\ Store(r)
                        /\ dist' = Retain(D, CachePairs(r.clusters))
                        /\ pc' = "done"
                        /\ UNCHANGED raised
       ELSE /\ pc' = "done"
            /\ log' = << >>
            /\ UNCHANGED <<core, dist, raised>>
    /\ UNCHANGED <<config, tick, finish, delivered, currentIndex, sequencesToProcess,
                   ingested, emptyBatches, peeks, duplicates>>

(* A host calls forceProcessBuffer(False, tick) between two                *)
(* processSequence calls; the returned clusters go to the host.            *)
PeekBuffer ==
    /\ pc = "loop" /\ candidates # << >> /\ peeks < MaxPeeks
    /\ \E e \in [Unresolved({}) -> DistVals] :
         LET D == dist @@ e
         IN  \E r \in {forceProcessBuffer(Self, FALSE, tick, D)} :
               IF r.raised
               THEN /\ pc' = "raised" /\ raised' = TRUE
                    /\ UNCHANGED <<core, dist, peeks, log>>
               ELSE /\ Store([r EXCEPT !.clusters = r.real, !.candidates = candidates])
                    /\ dist' = Retain(D, CachePairs(r.clusters) \cup CachePairs(r.real))
                    /\ peeks' = peeks + 1
                    /\ UNCHANGED <<pc, raised>>
    /\ UNCHANGED <<config, tick, finish, delivered, currentIndex, sequencesToProcess,
                   ingested, emptyBatches, duplicates>>

Next == AdvanceTickBatch \/ AdvanceTickEmpty \/ ProcessSequenceStep \/ FinalFlush

Spec == Init /\ [][Next]_vars

(* The same program with a host that also peeks.                           *)
NextPeek == Next \/ PeekBuffer

SpecPeek == Init /\ [][NextPeek]_vars

(* execute() runs to completion: no step that can be taken is put off      *)
(* forever (the loop is single-threaded and never blocks).  The loop does  *)
(* not depend on the clustering parameters, which are fixed here.          *)
(* Weak fairness of the pulls is stated with WF; weak fairness of          *)
(* ProcessSequenceStep \/ FinalFlush is spelled out, with CanProcess their *)
(* enabling condition: where it holds, the only steps are theirs.          *)
CanProcess == (pc = "loop" /\ sequencesToProcess # << >>) \/ pc = "flush"

FairSpec ==
    /\ Init /\ [][Next]_vars
    /\ WF_vars(AdvanceTickBatch \/ AdvanceTickEmpty)
    /\ ([]<>(~CanProcess) \/ []<><<CanProcess>>_vars)

(***************************************************************************)
(* A frequency store on its own, driven by any caller: prototypes are      *)
(* initialised, observed as closest, and replaced with any distances.      *)
(***************************************************************************)
FreqPrototypeCounts == {2, 3}
FreqDistVals == {1, MaxFreqDist}

FreqInit ==
    /\ numClusters = 1
    /\ numPrototypes \in FreqPrototypeCounts
    /\ numRepresentativePrototypes = 1
    /\ buffering = FALSE /\ bufferSize = 0
    /\ minimumRepresentativeness = <<0, 1>>
    /\ ratio = 0
    /\ clusterAssignment = FALSE
    /\ maxPerTick = 1
    /\ clusters = initializeClusters(numClusters, numRepresentativePrototypes, numPrototypes, -1)
    /\ candidates = << >>
    /\ labels = << >>
    /\ clusteredByApproximation = {}
    /\ bufferedSequences = {}
    /\ numFullyProcessed = 0
    /\ tick = -1
    /\ finish = FALSE
    /\ dist = << >>
    /\ delivered = 0
    /\ currentIndex = 0
    /\ sequencesToProcess = << >>
    /\ pc = "store"
    /\ raised = FALSE
    /\ ingested = {}
    /\ emptyBatches = 0
    /\ peeks = 0
    /\ duplicates = 0
    /\ log = << >>
    /\ data = << >>

(* `log` holds the call of updatePrototypes that has just returned or      *)
(* raised: the store before it, its arguments and whether it raised.       *)
FreqFrame ==
    UNCHANGED <<config, candidates, labels, clusteredByApproximation, bufferedSequences,
                numFullyProcessed, tick, finish, dist, currentIndex, sequencesToProcess,
                ingested, emptyBatches, peeks, duplicates>>

FreqKeys == DOMAIN clusters[0].prototypeFrequencies.frequencies

(* initializePrototype with the next new hash, while the store is filling. *)
FreqInitializePrototype ==
    /\ pc = "store" /\ Cardinality(FreqKeys) < numPrototypes
    /\ clusters' = [clusters EXCEPT ![0].prototypeFrequencies =
                        initializePrototype(@, delivered + 1)]
    /\ delivered' = delivered + 1
    /\ log' = << >>
    /\ UNCHANGED <<pc, raised>>
    /\ FreqFrame

(* closestPrototypeObserved(prototypeHash, 1), as                          *)
(* processSequenceIndefinitely calls it.                                   *)
FreqClosestPrototypeObserved ==
    /\ pc = "store" /\ Cardinality(FreqKeys) = numPrototypes
    /\ clusters[0].prototypeFrequencies.totalObservations < MaxVotes
    /\ \E prototypeHash \in FreqKeys :
            clusters' = [clusters EXCEPT ![0].prototypeFrequencies =
                            closestPrototypeObserved(@, prototypeHash, 1)]
    /\ log' = << >>
    /\ UNCHANGED <<pc, raised, delivered>>
    /\ FreqFrame

(* The distances dictionary of the pairs d gives a value for.              *)
RECURSIVE DictOf(_, _)
DictOf(d, codes) ==
    IF codes = << >> THEN << >>
    ELSE LET a == Head(codes) \div (NumHashes + 1)
             b == Head(codes) % (NumHashes + 1)
         IN  PutKey(DictOf(d, Tail(codes)), a, b, d[{a, b}])

(* updatePrototypes: one prototype is replaced by a new hash.              *)
FreqUpdatePrototypes ==
    /\ pc = "store" /\ Cardinality(FreqKeys) = numPrototypes
    /\ \E removedPrototypeHashes \in {{h} : h \in FreqKeys} :
        LET n == Cardinality(removedPrototypeHashes)
            addedPrototypeHashes == (delivered + 1)..(delivered + n)
            newPrototypeHashes == (FreqKeys \ removedPrototypeHashes) \cup addedPrototypeHashes
            pairs == {{a, b} : a \in newPrototypeHashes,
                               b \in newPrototypeHashes \cup removedPrototypeHashes}
        IN  /\ delivered + n <= MaxFreqHashes
            /\ delivered' = delivered + n
            /\ \E d \in [{pr \in pairs : Cardinality(pr) = 2} -> FreqDistVals] :
                LET distances ==
                        DictOf(d, SetOrder({pr[1] * (NumHashes + 1) + pr[2] :
                                    pr \in {q \in Hashes \X Hashes : {q[1], q[2]} \in DOMAIN d}}))
                    fs == clusters[0].prototypeFrequencies
                    call(hasRaised) ==
                        [kind |-> "updatePrototypes", before |-> fs,
                         newPrototypeHashes |-> newPrototypeHashes,
                         addedPrototypeHashes |-> addedPrototypeHashes,
                         removedPrototypeHashes |-> removedPrototypeHashes,
                         distances |-> distances, raised |-> hasRaised]
                IN  IF _distributeVotesFails(InitializeAll(fs, SetOrder(addedPrototypeHashes)),
                            newPrototypeHashes, removedPrototypeHashes, distances)
                    THEN /\ pc' = "raised" /\ raised' = TRUE /\ UNCHANGED clusters
                         /\ log' = <<call(TRUE)>>
                    ELSE /\ clusters' = [clusters EXCEPT ![0].prototypeFrequencies =
                                FrequencyStoreUpdatePrototypes(fs, newPrototypeHashes,
                                    addedPrototypeHashes, removedPrototypeHashes, distances)]
                         /\ log' = <<call(FALSE)>>
                         /\ pc' = "updated"
                         /\ UNCHANGED raised
    /\ FreqFrame

(* updatePrototypes has returned and its caller goes on.                   *)
FreqReturn ==
    /\ pc = "updated"
    /\ pc' = "store"
    /\ log' = << >>
    /\ UNCHANGED <<clusters, raised, delivered>>
    /\ FreqFrame

FreqNext ==
    FreqInitializePrototype \/ FreqClosestPrototypeObserved \/ FreqUpdatePrototypes \/ FreqReturn

FreqSpec == FreqInit /\ [][FreqNext]_vars

(***************************************************************************)
(* Properties.                                                             *)
(***************************************************************************)
Promoted(cs) == {h \in AllPrototypes(cs) : h > numClusters * numPrototypes}

FrequencyStores == {clusters[i].prototypeFrequencies : i \in DOMAIN clusters}

DefinedVotes(fs) == {h \in DOMAIN fs.frequencies : fs.frequencies[h][1]}

RECURSIVE SumVotes(_, _)
SumVotes(fs, hs) ==
    IF hs = {} THEN 0
    ELSE LET h == CHOOSE x \in hs : TRUE
         IN  fs.frequencies[h][2] + SumVotes(fs, hs \ {h})

(* C1: after every processSequence call and every persisting flush, every  *)
(* hash is in at most one of: the prototypes of any cluster, the candidate  *)
(* buffer, the labels map.                                                  *)
C1_HashInAtMostOnePlace ==
    /\ AllPrototypes(clusters) \cap CandidateHashes(candidates) = {}
    /\ AllPrototypes(clusters) \cap DOMAIN labels = {}
    /\ CandidateHashes(candidates) \cap DOMAIN labels = {}

(* C1, the part the program keeps: no hash is both buffered and a          *)
(* prototype or labelled.                                                  *)
C1_BufferedNowhereElse ==
    /\ AllPrototypes(clusters) \cap CandidateHashes(candidates) = {}
    /\ CandidateHashes(candidates) \cap DOMAIN labels = {}

C1_Witness ==
    /\ Promoted(clusters) # {} /\ candidates = << >>
    /\ \E h \in DOMAIN labels : h <= numClusters * numPrototypes

(* C3: processSequence with a hash ingested before leaves the whole        *)
(* clusterer state unchanged.                                              *)
C3_DuplicateIsNoOp ==
    [][(/\ pc = "loop" /\ sequencesToProcess # << >>
        /\ Head(sequencesToProcess) \in ingested
        /\ sequencesToProcess' = Tail(sequencesToProcess))
            => UNCHANGED <<core, raised, dist>>]_vars

C3_Witness ==
    /\ duplicates > 0 /\ sequencesToProcess = << >> /\ ~raised
    /\ DOMAIN labels # {} /\ Promoted(clusters) # {}

(* C4: every fully initialised cluster holds exactly p prototypes, r       *)
(* representative and p - r other hashes, disjoint, whose union is the     *)
(* prototype key set, and the frequency store has the same keys.           *)
C4_PrototypeCounts ==
    \A i \in DOMAIN clusters :
        LET ps == clusters[i].prototypes
        IN  ps.fullyInitialized =>
                /\ Len(ps.prototypes) = numPrototypes
                /\ Cardinality(Range(ps.prototypes)) = numPrototypes
                /\ Cardinality(ps.representativePrototypeHashes) = numRepresentativePrototypes
                /\ Cardinality(ps.otherPrototypeHashes) = numPrototypes - numRepresentativePrototypes
                /\ ps.representativePrototypeHashes \cap ps.otherPrototypeHashes = {}
                /\ ps.representativePrototypeHashes \cup ps.otherPrototypeHashes
                        = Range(ps.prototypes)
                /\ DOMAIN clusters[i].prototypeFrequencies.frequencies = Range(ps.prototypes)

C4_Witness ==
    \E i \in DOMAIN clusters :
        /\ clusters[i].prototypes.fullyInitialized
        /\ Range(clusters[i].prototypes.prototypes) \cap Promoted(clusters) # {}
        /\ \E h \in DOMAIN labels : h <= numClusters * numPrototypes

(* C5: in every cluster the defined vote counts sum to totalObservations.  *)
C5_VotesSumToTotal ==
    \A fs \in FrequencyStores : SumVotes(fs, DefinedVotes(fs)) = fs.totalObservations

C5_Witness ==
    \E fs \in FrequencyStores :
        /\ fs.totalObservations > 1
        /\ \E h \in DefinedVotes(fs) : h \in Promoted(clusters)

(* C6: every entry of a frequency store is uninitialised or a non-negative *)
(* integer.                                                                *)
C6_VotesNonNegative ==
    \A fs \in FrequencyStores : \A h \in DefinedVotes(fs) : fs.frequencies[h][2] >= 0

(* C8: with buffering disabled the candidate buffer is empty after every   *)
(* processSequence call.                                                   *)
C8_NoBufferingEmptyBuffer == ~buffering => candidates = << >>

C8_Witness ==
    ~buffering /\ Promoted(clusters) # {} /\ candidates = << >> /\ pc = "loop"

(* C9: with buffering enabled and capacity B >= 1 the buffer holds fewer   *)
(* than B entries between calls; with B = 0 it is always empty.            *)
C9_BufferBelowCapacity ==
    buffering => /\ bufferSize >= 1 => Len(candidates) < bufferSize
                 /\ bufferSize = 0 => candidates = << >>

C9_Witness ==
    /\ buffering /\ bufferSize = 2 /\ candidates = << >> /\ pc = "loop"
    /\ Promoted(clusters) # {}

(* C10: execute() terminates; it pulls no batch after an empty one.        *)
C10_Terminates ==
    /\ [](emptyBatches <= 1 /\ (emptyBatches = 1 => pc # "loop"))
    /\ <>(pc \in {"done", "raised"})

C10_Witness == pc = "done" /\ emptyBatches = 1 /\ DOMAIN labels # {}

(* C2: forceProcessBuffer(persist = False) leaves the labels map, the      *)
(* clustered-by-approximation set, the fully-processed counter, the        *)
(* candidate buffer and every real cluster unchanged.                      *)
C2_PeekIsSideEffectFree ==
    [][peeks' = peeks + 1 => UNCHANGED core]_vars

(* C2, the part the program keeps: the candidate buffer is unchanged.      *)
C2_PeekKeepsBuffer ==
    [][peeks' = peeks + 1 => UNCHANGED <<candidates, bufferedSequences>>]_vars

C2_Witness == peeks = 1 /\ candidates # << >> /\ ~raised

(* C7: after FrequencyStore.updatePrototypes the store has exactly p       *)
(* entries and totalObservations is not greater than before the call.      *)
C7_UpdateKeepsSizeAndTotal ==
    [][(Cardinality(FreqKeys) = numPrototypes /\ FreqKeys' # FreqKeys)
        => /\ Cardinality(FreqKeys') = numPrototypes
           /\ clusters'[0].prototypeFrequencies.totalObservations
                <= clusters[0].prototypeFrequencies.totalObservations]_vars

(* C7, the part the program keeps: exactly p entries after the call.       *)
C7_UpdateKeepsSize ==
    [][(Cardinality(FreqKeys) = numPrototypes /\ FreqKeys' # FreqKeys)
        => Cardinality(FreqKeys') = numPrototypes]_vars

C7_Witness ==
    /\ numPrototypes = 3 /\ Cardinality(FreqKeys) = numPrototypes
    /\ FreqKeys # 1..numPrototypes
    /\ clusters[0].prototypeFrequencies.totalObservations > 0

(* C11: when execute() returns, the candidate buffer is empty and every    *)
(* distinct hash the stream delivered is a current prototype or a key of   *)
(* labels, so that finalLabels has exactly the delivered hashes as keys.   *)
C11_AllDeliveredLabelledAtEnd ==
    pc = "done" =>
        /\ candidates = << >>
        /\ \A h \in 1..delivered : h \in AllPrototypes(clusters) \/ h \in DOMAIN labels
        /\ DOMAIN finalLabels(Self) = 1..delivered

C11_Witness ==
    /\ pc = "done" /\ buffering /\ delivered = MaxData
    /\ log # << >> /\ log[1].kind = "flush" /\ log[1].candidates # {}

(* C12: the public flag `finish` is true once execute() has observed the   *)
(* empty batch and false before.                                           *)
C12_FinishRecordsExhaustion == finish <=> emptyBatches > 0

(* C12, the part the program keeps: the flag is false before the empty     *)
(* batch.                                                                  *)
C12_NotFinishedBefore == emptyBatches = 0 => ~finish

C12_Witness == emptyBatches = 0 /\ delivered = MaxData /\ sequencesToProcess = << >>

(* The events of the last call and, for a label event, what the spec says  *)
(* about it; the distances of an event are entries <<cluster, distance,    *)
(* error>> in cluster order.                                               *)
Events(kind) == {log[k] : k \in {j \in 1..Len(log) : log[j].kind = kind}}

Least(S) == CHOOSE i \in S : \A j \in S : i <= j

EntryOf(ev, i) == ev.distances[CHOOSE k \in 1..Len(ev.distances) : ev.distances[k][1] = i]

ClustersOf(ev) == {ev.distances[k][1] : k \in 1..Len(ev.distances)}

Nearest(ev) ==
    {i \in ClustersOf(ev) : \A j \in ClustersOf(ev) : RLe(EntryOf(ev, i)[2], EntryOf(ev, j)[2])}

AmbiguitySet(ev) ==
    LET best == EntryOf(ev, Least(Nearest(ev)))
    IN  {best[1]} \cup
        {i \in ClustersOf(ev) :
            RLe(RAbs(RSub(EntryOf(ev, i)[2], best[2])), RMax(EntryOf(ev, i)[3], best[3]))}

NearestExactly(ev, S) == {i \in S : \A j \in S : ev.exact[i] <= ev.exact[j]}

(* The same with the sums assignToClusterAccurate obtains from             *)
(* sumOfDistancesOf, memoised values included.                             *)
NearestAsComputed(ev, S) == {i \in S : \A j \in S : ev.computed[i] <= ev.computed[j]}

(* C14: when several clusters are at the same minimal distance from the    *)
(* sequence being labelled, the one with the smallest id wins: without     *)
(* approximation among the clusters of minimal distance, and with it among *)
(* the ambiguous clusters for which the recomputation gave the smallest sum *)
(* of distances.                                                           *)
C14_TieGoesToSmallestId ==
    \A ev \in Events("label") :
        /\ ~clusterAssignment => ev.label = Least(Nearest(ev))
        /\ (clusterAssignment /\ ~ev.byApproximation)
                => ev.label = Least(NearestAsComputed(ev, AmbiguitySet(ev)))

(* A sequence was labelled by recomputing the distances for an ambiguity
   set in which two clusters came out at the same minimal distance. *)
C14_Witness ==
    \E ev \in Events("label") :
        /\ clusterAssignment /\ ~ev.byApproximation
        /\ Cardinality(NearestAsComputed(ev, AmbiguitySet(ev))) > 1

(***************************************************************************)
(* C15.  Ranking of equally valued entries in the selection of new         *)
(* prototypes.                                                             *)
(***************************************************************************)

(* The positions of the list prototypeValues of a select event whose       *)
(* sequence became a prototype, respectively a representative one.         *)
Kept(ev) == {i \in 1..Len(ev.values) : ev.values[i][1] \in Range(ev.prototypes)}

KeptRepresentative(ev) == {i \in 1..Len(ev.values) : ev.values[i][1] \in ev.representative}

(* Two positions of the list hold the same value.                          *)
Tied(ev, i, j) == i # j /\ ev.values[i][2] = ev.values[j][2]

(* C15: the rank of equally valued entries in the selection of new
   prototypes does not depend on the order in which the candidates entered
   the buffer: every call of processCandidatesForCluster chooses the same
   prototypes and the same representatives as it would with the candidates
   given in the opposite order. *)
C15_RankIndependentOfInsertionOrder ==
    \A ev \in Events("select") :
        /\ ev.reversed.prototypes = Range(ev.prototypes)
        /\ ev.reversed.representative = ev.representative

(* C15, what the program does: of two equally valued entries the one later
   in the list (candidates in buffer order, then incumbents in the order of
   the prototype dict) ranks higher, so whenever the earlier one is kept
   among the prototypes (the representatives) the later one is too. *)
C15_TiesFavourLaterEntries ==
    \A ev \in Events("select") :
        \A i, j \in 1..Len(ev.values) :
            (i < j /\ Tied(ev, i, j)) =>
                /\ i \in Kept(ev) => j \in Kept(ev)
                /\ i \in KeptRepresentative(ev) => j \in KeptRepresentative(ev)

(* Two equally valued candidates on the two sides of the cut between
   representative and other prototypes: the one that entered the buffer
   later became the representative. *)
C15_Witness ==
    \E ev \in Events("select") :
        \E i, j \in 1..Len(ev.candidates) :
            /\ i < j /\ Tied(ev, i, j)
            /\ i \in Kept(ev) \ KeptRepresentative(ev)
            /\ j \in KeptRepresentative(ev)

(***************************************************************************)
(* C16.  Labelling with approximation enabled.                             *)
(***************************************************************************)

(* C16: with approximation enabled, a sequence whose ambiguity set (the
   nearest cluster plus every cluster whose distance differs from the
   nearest by at most the larger of the two errors) has one element is
   given to the nearest cluster and recorded as clustered by approximation;
   a sequence whose ambiguity set has more elements is given to a cluster of
   that set at minimal exact distance and is not recorded as clustered by
   approximation. *)
C16_AmbiguitySetDecidesLabel ==
    clusterAssignment =>
        \A ev \in Events("label") :
            IF Cardinality(AmbiguitySet(ev)) = 1
            THEN /\ ev.label = Least(Nearest(ev))
                 /\ ev.byApproximation
                 /\ ev.hash \in clusteredByApproximation
            ELSE /\ ev.label \in NearestExactly(ev, AmbiguitySet(ev))
                 /\ ~ev.byApproximation
                 /\ ev.hash \notin clusteredByApproximation

(* C16, what the program does: the same, with the sums that
   sumOfDistancesOf returns (a sum memoised before a flush changed the
   representative prototypes is returned as it was) in place of the exact
   distances. *)
C16_AmbiguitySetDecidesLabelAsComputed ==
    clusterAssignment =>
        \A ev \in Events("label") :
            IF Cardinality(AmbiguitySet(ev)) = 1
            THEN /\ ev.label = Least(Nearest(ev))
                 /\ ev.byApproximation
                 /\ ev.hash \in clusteredByApproximation
            ELSE /\ ev.label \in NearestAsComputed(ev, AmbiguitySet(ev))
                 /\ ~ev.byApproximation
                 /\ ev.hash \notin clusteredByApproximation

(* A sequence was labelled with an ambiguity set of several clusters, for
   one of which the sum obtained differs from the exact distance. *)
C16_Witness ==
    /\ clusterAssignment
    /\ \E ev \in Events("label") :
            /\ Cardinality(AmbiguitySet(ev)) > 1
            /\ \E i \in AmbiguitySet(ev) : ev.computed[i] # ev.exact[i]

(***************************************************************************)
(* C17.  Promotion of a buffered candidate by a flush.                     *)
(***************************************************************************)

(* The clusters of which h is a prototype.                                 *)
HoldersOf(h) == {i \in DOMAIN clusters : h \in Range(clusters[i].prototypes.prototypes)}

(* C17: after a flush that completed, every sequence that was in the buffer
   is a prototype of at most one cluster (a flush that raises leaves the
   state as it was). *)
C17_PromotedToOneClusterOnly ==
    \A ev \in Events("flush") :
        \A h \in ev.candidates : Cardinality(HoldersOf(h)) <= 1

(* C17, what the program does: a flush promotes a buffered sequence only in
   clusters it was a candidate for: each cluster holding it after the flush
   ran a selection with it among the candidates. *)
C17_PromotedWhereCandidate ==
    \A ev \in Events("flush") :
        \A h \in ev.candidates : \A i \in HoldersOf(h) :
            \E sel \in Events("select") :
                sel.cluster = i /\ h \in Range(sel.candidates)

(* A flush has promoted a buffered sequence that was a candidate for two
   clusters in exactly one of them. *)
C17_Witness ==
    \E ev \in Events("flush") : \E h \in ev.candidates :
        /\ Cardinality(HoldersOf(h)) = 1
        /\ Cardinality({sel \in Events("select") : h \in Range(sel.candidates)}) = 2

(***************************************************************************)
(* Longer runs on one configuration: two clusters, no buffering, exact     *)
(* distances.  The stream delivers EvictData distinct sequences; the       *)
(* distances among the first five are fixed (the two initial prototypes of *)
(* each cluster are far apart and the fifth sequence is near all four),    *)
(* those of the later sequences are arbitrary in EvictDistVals.            *)
(***************************************************************************)
EvictDistVals == {1, MaxEvictDist}

EvictPrefixDistance(pr) == IF pr \in {{1, 2}, {3, 4}} THEN MaxEvictDist ELSE MaxDist

EvictDistances(sequenceHash, pairs) ==
    IF sequenceHash <= 5 THEN {[pr \in pairs |-> EvictPrefixDistance(pr)]}
    ELSE [pairs -> EvictDistVals]

EvictInit ==
    /\ Init
    /\ numClusters = 2 /\ ~buffering /\ ~clusterAssignment
    /\ ratio = 4 /\ minimumRepresentativeness = <<0, 1>>

(* _advanceTick: the stream delivers a batch of sequences not seen before. *)
EvictBatch ==
    /\ pc = "loop" /\ sequencesToProcess = << >>
    /\ \E n \in 1..maxPerTick :
        /\ currentIndex + n <= EvictData
        /\ sequencesToProcess' = [k \in 1..n |-> delivered + k]
        /\ delivered' = delivered + n
        /\ currentIndex' = currentIndex + n
    /\ tick' = tick + 1
    /\ log' = << >>
    /\ UNCHANGED <<config, core, finish, dist, pc, raised, ingested, emptyBatches, peeks,
                   duplicates>>

(* self.processSequence((sequenceHash, sequence), True).                   *)
EvictStep ==
    /\ pc = "loop" /\ sequencesToProcess # << >>
    /\ LET sequenceHash == Head(sequencesToProcess)
       IN  \E e \in EvictDistances(sequenceHash, Unresolved({sequenceHash})) :
             LET D == dist @@ e
             IN  \E r \in {processSequence(Self, sequenceHash, TRUE, D)} :
                   IF r.raised
                   THEN /\ pc' = "raised" /\ raised' = TRUE
                        /\ UNCHANGED <<core, dist, sequencesToProcess, ingested, log>>
                   ELSE /\ Store(r)
                        /\ dist' = Retain(D, CachePairs(r.clusters))
                        /\ sequencesToProcess' = Tail(sequencesToProcess)
                        /\ ingested' = ingested \cup {sequenceHash}
                        /\ UNCHANGED <<pc, raised>>
    /\ UNCHANGED <<config, tick, finish, delivered, currentIndex, emptyBatches, peeks,
                   duplicates>>

EvictNext == EvictBatch \/ AdvanceTickEmpty \/ EvictStep \/ FinalFlush

EvictSpec == EvictInit /\ [][EvictNext]_vars

(***************************************************************************)
(* Runs of MemoData distinct sequences on one configuration: two clusters, *)
(* a buffer of two, approximated cluster assignment.                       *)
(***************************************************************************)
MemoInit ==
    /\ Init
    /\ numClusters = 2 /\ buffering /\ bufferSize = 2 /\ clusterAssignment
    /\ ratio = 4 /\ minimumRepresentativeness = <<0, 1>>

(* _advanceTick: the stream delivers a batch of sequences not seen before. *)
MemoBatch ==
    /\ pc = "loop" /\ sequencesToProcess = << >>
    /\ \E n \in 1..maxPerTick :
        /\ currentIndex + n <= MemoData
        /\ sequencesToProcess' = [k \in 1..n |-> delivered + k]
        /\ delivered' = delivered + n
        /\ currentIndex' = currentIndex + n
    /\ tick' = tick + 1
    /\ log' = << >>
    /\ UNCHANGED <<config, core, finish, dist, pc, raised, ingested, emptyBatches, peeks,
                   duplicates>>

MemoNext == MemoBatch \/ AdvanceTickEmpty \/ ProcessSequenceStep \/ FinalFlush

MemoSpec == MemoInit /\ [][MemoNext]_vars

(***************************************************************************)
(* C18.  Labels of the prototypes a flush removes.                         *)
(***************************************************************************)

(* The select events of a log that starts with a persisting flush.         *)
PersistedSelections ==
    IF \E ev \in Events("flush") : ev.persist THEN Events("select") ELSE {}

(* C18: after a persisting flush, every prototype that a selection of that
   flush removed from a cluster carries the class of that cluster as its
   label. *)
C18_RemovedLabelledWithItsCluster ==
    \A sel \in PersistedSelections :
        \A h \in sel.removed :
            h \in DOMAIN labels /\ labels[h] = classes[sel.cluster + 1]

(* The selections of the flush that removed h.                             *)
RemoversOf(h) == {sel.cluster : sel \in {x \in PersistedSelections : h \in x.removed}}

(* C18, what the program does: a prototype removed in a persisting flush
   carries the class of the last cluster, in cluster order, that removed it
   in that flush. *)
C18_RemovedLabelledWithLastRemover ==
    \A sel \in PersistedSelections :
        \A h \in sel.removed :
            /\ h \in DOMAIN labels
            /\ labels[h] = classes[(CHOOSE i \in RemoversOf(h) : \A j \in RemoversOf(h) : j <= i) + 1]

(* A persisting flush removed the same prototype from two clusters.        *)
C18_Witness ==
    \E a, b \in PersistedSelections :
        a.cluster # b.cluster /\ a.removed \cap b.removed # {}

(***************************************************************************)
(* C19.  Labelling of the candidates a flush does not promote.             *)
(***************************************************************************)

(* The labellings done by a flush: those of its candidates that are a      *)
(* prototype of no cluster after the selections.                           *)
FlushLabellings == IF Events("flush") # {} THEN Events("label") ELSE {}

(* The labelling went to a cluster at minimal exact distance and did not   *)
(* record the sequence as clustered by approximation.                      *)
LabelledByPlainDistance(ev) ==
    /\ ev.label \in NearestExactly(ev, DOMAIN ev.exact)
    /\ ~ev.byApproximation
    /\ ev.hash \notin clusteredByApproximation

(* C19: whatever the approximation setting, a flush labels each candidate
   it did not promote with a cluster at minimal plain (all-prototype)
   distance and never records it as clustered by approximation. *)
C19_FlushLabelsByPlainDistance ==
    \A ev \in FlushLabellings : LabelledByPlainDistance(ev)

(* C19, what the program does: the flush labels by plain distance when
   approximation is disabled. *)
C19_PlainWhenApproximationDisabled ==
    ~clusterAssignment => \A ev \in FlushLabellings : LabelledByPlainDistance(ev)

(* With approximation disabled, a flush labelled a candidate it did not
   promote, with two clusters at different exact distances. *)
C19_Witness ==
    /\ ~clusterAssignment
    /\ \E ev \in FlushLabellings :
            NearestExactly(ev, DOMAIN ev.exact) # DOMAIN ev.exact

(***************************************************************************)
(* C20.  The outcome of the selection of new prototypes.                   *)
(***************************************************************************)

(* The value of h in the list prototypeValues of a select event.           *)
ValueIn(ev, h) == ev.values[CHOOSE k \in 1..Len(ev.values) : ev.values[k][1] = h][2]

HashesIn(ev) == {ev.values[k][1] : k \in 1..Len(ev.values)}

(* S holds n entries of the list and no entry outside S has a higher value *)
(* than one inside.                                                        *)
HighestValued(ev, S, n) ==
    /\ S \subseteq HashesIn(ev)
    /\ Cardinality(S) = n
    /\ \A h \in S : \A g \in HashesIn(ev) \ S : RLe(ValueIn(ev, g), ValueIn(ev, h))

(* C20: the combined list holds the candidates and the incumbents, a
   candidate valued with weight 0 (so with value 0 when the ratio makes the
   value the weight alone); after a selection the prototypes of the cluster
   are the p highest valued entries of the list, its
   representative prototypes the r highest valued, its other prototypes the
   rest of the top p, and the returned set the incumbents outside the top
   p. *)
C20_SelectionKeepsHighestValued ==
    \A ev \in Events("select") :
        /\ HashesIn(ev) = Range(ev.candidates) \cup Range(ev.before)
        /\ ratio = 0 => \A h \in Range(ev.candidates) : ValueIn(ev, h)[1] = 0
        /\ HighestValued(ev, Range(ev.prototypes), numPrototypes)
        /\ HighestValued(ev, ev.representative, numRepresentativePrototypes)
        /\ ev.representative \subseteq Range(ev.prototypes)
        /\ ev.other = Range(ev.prototypes) \ ev.representative
        /\ ev.removed = Range(ev.before) \ Range(ev.prototypes)

(* A selection promoted one candidate, rejected another and removed an
   incumbent. *)
C20_Witness ==
    \E ev \in Events("select") :
        /\ Range(ev.candidates) \cap Range(ev.prototypes) # {}
        /\ Range(ev.candidates) \ Range(ev.prototypes) # {}
        /\ ev.removed # {}

(***************************************************************************)
(* C21.  When a distance to a cluster is the representatives-only average. *)
(***************************************************************************)

(* The distance entry of cluster i in a labelling is the average over the  *)
(* representative prototypes and not the average over all prototypes.      *)
RepresentativesOnly(ev, i) ==
    /\ EntryOf(ev, i)[2] = Rat(ev.representativeSum[i], numRepresentativePrototypes)
    /\ EntryOf(ev, i)[2] # Rat(ev.exact[i], numPrototypes)

(* The labellings outside a flush: their distances come from               *)
(* determineCandidacy.                                                     *)
DirectLabellings == IF Events("flush") = {} THEN Events("label") ELSE {}

(* C21: a distance to a cluster used in a labelling is the
   representatives-only average only if approximation is enabled and the
   cluster is representative enough (its average representativeness is at
   least minimumRepresentativeness). *)
C21_ApproximatesOnlyIfRepresentativeEnough ==
    \A ev \in Events("label") : \A i \in ClustersOf(ev) :
        RepresentativesOnly(ev, i) => clusterAssignment /\ ev.enough[i]

(* C21, what the program does: the rule holds for the distances of
   determineCandidacy, those of a labelling outside a flush; and no
   representatives-only average is used with approximation disabled. *)
C21_CandidacyApproximatesOnlyIfRepresentativeEnough ==
    /\ \A ev \in DirectLabellings : \A i \in ClustersOf(ev) :
            RepresentativesOnly(ev, i) => clusterAssignment /\ ev.enough[i]
    /\ \A ev \in Events("label") : \A i \in ClustersOf(ev) :
            RepresentativesOnly(ev, i) => clusterAssignment

(* Outside a flush a sequence was labelled with the representatives-only
   average of a cluster that is representative enough. *)
C21_Witness ==
    \E ev \in DirectLabellings :
        \E i \in ClustersOf(ev) : RepresentativesOnly(ev, i) /\ ev.enough[i]

(***************************************************************************)
(* C22.  The sequences recorded as clustered by approximation.             *)
(***************************************************************************)

(* The distance of the event to cluster i came from the branch that        *)
(* averages over the representative prototypes only: isCandidate takes it  *)
(* with approximation on and a representative-enough cluster,              *)
(* computeDistanceToClusters (the flush) with approximation on.            *)
Approximated(ev, i) ==
    clusterAssignment /\ (ev \in DirectLabellings => ev.enough[i])

(* C22: a sequence labelled by the last call is in clusteredByApproximation
   only if at least one of the distances compared for its label was a
   representatives-only approximation; with approximation disabled, or with
   every cluster on the exact distance, it is not in the set. *)
C22_RecordedOnlyIfSomeDistanceApproximated ==
    \A ev \in Events("label") :
        ev.hash \in clusteredByApproximation =>
            \E i \in ClustersOf(ev) : Approximated(ev, i)

(* C22, what the program does: with approximation disabled nothing is
   recorded; with approximation enabled a labelled sequence is recorded
   exactly when no other cluster is ambiguous with the nearest one, whether
   or not any compared distance was an approximation. *)
C22_RecordedWhenUnambiguous ==
    /\ ~clusterAssignment => clusteredByApproximation = {}
    /\ \A ev \in Events("label") :
            /\ ev.hash \in clusteredByApproximation <=> ev.byApproximation
            /\ ev.byApproximation <=>
                    clusterAssignment /\ AmbiguitySet(ev) = {ev.label}

(* Between two clusters, a sequence was recorded as clustered by
   approximation and another labelling of the same configuration would not
   be: the distance to a cluster was a representatives-only average. *)
C22_Witness ==
    \E ev \in Events("label") :
        /\ Cardinality(ClustersOf(ev)) = 2
        /\ ev.hash \in clusteredByApproximation
        /\ \E i \in ClustersOf(ev) : Approximated(ev, i) /\ RepresentativesOnly(ev, i)

(***************************************************************************)
(* C23.  The order of initialisation.                                      *)
(***************************************************************************)

(* The distinct sequences are numbered in arrival order from 1: the i-th   *)
(* (0-based) has hash i + 1.  The first n of them fill the clusters in     *)
(* order of identifier, the representative half of each first.             *)
InitialLayout(n) ==
    \A k \in DOMAIN clusters :
        LET ps == clusters[k].prototypes
            mine == {h \in 1..n : (h - 1) \div numPrototypes = k}
        IN  /\ Range(ps.prototypes) = mine
            /\ ps.representativePrototypeHashes =
                    {h \in mine : (h - 1) % numPrototypes < numRepresentativePrototypes}
            /\ ps.otherPrototypeHashes =
                    {h \in mine : (h - 1) % numPrototypes >= numRepresentativePrototypes}

Initialised == Cardinality(AllPrototypes(clusters))

(* C23: while some cluster is not fully initialised, the i-th distinct
   sequence (0-based, hash i + 1) goes to cluster i div p, as a
   representative iff i mod p < r, also in the step that completes the
   initialisation; and until all clusters are fully initialised the labels
   and the buffer stay empty. *)
C23_InitialisationOrder ==
    /\ InitialLayout(0)
    /\ [][~fullyInitialized(Self) =>
            /\ InitialLayout(Initialised)'
            /\ Initialised' \in {Initialised, Initialised + 1}
            /\ ~fullyInitialized(Self)' =>
                    labels' = << >> /\ candidates' = << >>
                        /\ clusteredByApproximation' = {}]_vars

(* Two clusters have just been fully initialised by the first K * p
   distinct sequences. *)
C23_Witness ==
    /\ numClusters = 2
    /\ fullyInitialized(Self)
    /\ InitialLayout(numClusters * numPrototypes)
    /\ labels = << >> /\ candidates = << >>

(***************************************************************************)
(* C24.  A stream too short to initialise the clusters.                    *)
(***************************************************************************)

(* C24: while fewer than K * p distinct sequences have been delivered
   nothing raises, and when execute() has returned on such a stream (final
   flush included) some cluster is not fully initialised and the labels and
   the buffer are empty. *)
C24_ShortStreamCompletesEmpty ==
    delivered < numClusters * numPrototypes =>
        /\ ~raised /\ pc # "raised"
        /\ pc = "done" =>
            /\ \E i \in DOMAIN clusters : ~clusters[i].prototypes.fullyInitialized
            /\ labels = << >>
            /\ candidates = << >>
            /\ bufferedSequences = {}

(* execute() has returned, with buffering on, from a stream that filled
   one of two clusters and started the other. *)
C24_Witness ==
    /\ pc = "done" /\ buffering
    /\ numClusters = 2
    /\ delivered = numPrototypes + 1
    /\ clusters[0].prototypes.fullyInitialized

(***************************************************************************)
(* A prototype store on its own, driven by any caller through its public   *)
(* operations addPrototype and updatePrototypes, with any arguments.  The  *)
(* store is that of cluster 0; `tick` counts the calls and is the tick     *)
(* argument of the next one; `log` holds the last call: the store before,  *)
(* the arguments, what updatePrototypes returned and whether the call      *)
(* raised.  An assertion error ends the run.                               *)
(***************************************************************************)
StoreHashes == 1..MaxStoreHashes
StorePrototypeCounts == {2, 3}

StoreInit ==
    /\ numClusters = 1
    /\ numPrototypes \in StorePrototypeCounts
    /\ numRepresentativePrototypes \in 1..(numPrototypes - 1)
    /\ buffering = FALSE /\ bufferSize = 0
    /\ minimumRepresentativeness = <<0, 1>>
    /\ ratio = 0
    /\ clusterAssignment = FALSE
    /\ maxPerTick = 1
    /\ clusters = initializeClusters(numClusters, numRepresentativePrototypes, numPrototypes, 0)
    /\ candidates = << >>
    /\ labels = << >>
    /\ clusteredByApproximation = {}
    /\ bufferedSequences = {}
    /\ numFullyProcessed = 0
    /\ tick = 0
    /\ finish = FALSE
    /\ dist = << >>
    /\ delivered = 0
    /\ currentIndex = 0
    /\ sequencesToProcess = << >>
    /\ pc = "store"
    /\ raised = FALSE
    /\ ingested = {}
    /\ emptyBatches = 0
    /\ peeks = 0
    /\ duplicates = 0
    /\ log = << >>
    /\ data = << >>

StoreFrame ==
    UNCHANGED <<config, candidates, labels, clusteredByApproximation, bufferedSequences,
                numFullyProcessed, finish, dist, delivered, currentIndex,
                sequencesToProcess, ingested, emptyBatches, peeks, duplicates>>

(* The call raised or returned, leaving the store `after`.                 *)
StoreReturn(after, hasRaised) ==
    /\ clusters' = [clusters EXCEPT ![0].prototypes = after]
    /\ raised' = hasRaised
    /\ pc' = IF hasRaised THEN "raised" ELSE "store"
    /\ tick' = tick + 1

StoreAddPrototype ==
    /\ pc = "store" /\ tick < MaxStoreCalls
    /\ \E prototypeHash \in StoreHashes, representative \in BOOLEAN,
          toReplaceHash \in {NoHash} \cup StoreHashes :
        LET ps == clusters[0].prototypes
            fails == addPrototypeFails(ps, prototypeHash, representative, toReplaceHash)
        IN  /\ StoreReturn(
                    IF fails
                    THEN addPrototypeLeaves(ps, prototypeHash, representative, toReplaceHash)
                    ELSE addPrototype(ps, prototypeHash, representative, tick, toReplaceHash),
                    fails)
            /\ log' = <<[kind |-> "addPrototype", before |-> ps,
                         prototypeHash |-> prototypeHash,
                         representative |-> representative,
                         tick |-> tick, toReplaceHash |-> toReplaceHash,
                         raised |-> fails]>>
    /\ StoreFrame

(* updatePrototypes with any dictionary over the hashes, any               *)
(* representative hashes among its keys, and the other hashes either the   *)
(* remaining keys or (overlapping) all keys.                               *)
StoreUpdatePrototypes ==
    /\ pc = "store" /\ tick < MaxStoreCalls
    /\ \E keys \in SUBSET StoreHashes :
       \E newRepresentativePrototypeHashes \in SUBSET keys :
       \E newOtherPrototypeHashes \in {keys \ newRepresentativePrototypeHashes, keys} :
        LET ps == clusters[0].prototypes
            newPrototypes == SetOrder(keys)
            fails == PrototypeStoreUpdatePrototypesFails(ps, newPrototypes,
                        newOtherPrototypeHashes, newRepresentativePrototypeHashes)
            r == PrototypeStoreUpdatePrototypes(ps, newPrototypes,
                        newOtherPrototypeHashes, newRepresentativePrototypeHashes, tick)
        IN  /\ StoreReturn(
                    IF fails
                    THEN PrototypeStoreUpdatePrototypesLeaves(ps, newPrototypes,
                            newOtherPrototypeHashes, newRepresentativePrototypeHashes)
                    ELSE r.ps,
                    fails)
            /\ log' = <<[kind |-> "updatePrototypes", before |-> ps,
                         newPrototypes |-> newPrototypes,
                         newOtherPrototypeHashes |-> newOtherPrototypeHashes,
                         newRepresentativePrototypeHashes |-> newRepresentativePrototypeHashes,
                         tick |-> tick,
                         returned |-> IF fails THEN {} ELSE r.removed,
                         raised |-> fails]>>
    /\ StoreFrame

StoreNext == StoreAddPrototype \/ StoreUpdatePrototypes

StoreSpec == StoreInit /\ [][StoreNext]_vars

(***************************************************************************)
(* C25.  The two initialisation flags of a prototype store.                *)
(***************************************************************************)
TheStore == clusters[0].prototypes

RepresentativeHalfFilled(ps) ==
    Cardinality(ps.representativePrototypeHashes) = ps.numRepresentativePrototypes

HalvesFilled(ps) ==
    /\ RepresentativeHalfFilled(ps)
    /\ Cardinality(ps.otherPrototypeHashes) = numOtherPrototypes(ps)

FlagsExact(ps) ==
    /\ ps.fullyInitialized <=> HalvesFilled(ps)
    /\ ps.representativePrototypesInitialized <=> RepresentativeHalfFilled(ps)

LastCall == log[1]

(* C25: under any sequence of addPrototype and updatePrototypes calls that
   did not raise, fullyInitialized is true exactly when both halves are
   filled, representativePrototypesInitialized exactly when the
   representative half is filled, and neither flag returns to false. *)
C25_FlagsTrackHalves ==
    /\ [](~raised => FlagsExact(TheStore))
    /\ [][/\ TheStore.fullyInitialized => TheStore'.fullyInitialized
          /\ TheStore.representativePrototypesInitialized =>
                TheStore'.representativePrototypesInitialized]_vars

(* C25, what the program does: a flag that is true has its halves filled,
   neither flag returns to false, and addPrototype keeps the flags exact;
   updatePrototypes fills the halves without setting a flag. *)
C25_FlagsSetByAddPrototypeOnly ==
    /\ [](~raised =>
            /\ TheStore.fullyInitialized => HalvesFilled(TheStore)
            /\ TheStore.representativePrototypesInitialized =>
                    RepresentativeHalfFilled(TheStore))
    /\ [][/\ TheStore.fullyInitialized => TheStore'.fullyInitialized
          /\ TheStore.representativePrototypesInitialized =>
                TheStore'.representativePrototypesInitialized
          /\ (~raised' /\ LastCall'.kind = "addPrototype" /\ FlagsExact(TheStore)) =>
                FlagsExact(TheStore')
          /\ (~raised' /\ LastCall'.kind = "updatePrototypes") =>
                /\ HalvesFilled(TheStore')
                /\ TheStore'.fullyInitialized = TheStore.fullyInitialized
                /\ TheStore'.representativePrototypesInitialized =
                        TheStore.representativePrototypesInitialized]_vars

(* addPrototype has just completed the initialisation of a store, setting
   fullyInitialized. *)
C25_Witness ==
    /\ log # << >> /\ ~raised
    /\ LastCall.kind = "addPrototype"
    /\ ~LastCall.before.fullyInitialized
    /\ LastCall.before.representativePrototypesInitialized
    /\ TheStore.fullyInitialized

(***************************************************************************)
(* C26.  addPrototype with a replacement on a fully initialised store.     *)
(***************************************************************************)

(* The last call was addPrototype on a fully initialised store holding     *)
(* exactly its p prototypes, with toReplaceHash one of them and the new    *)
(* hash none of them.                                                      *)
ReplacingCall ==
    /\ log # << >>
    /\ LastCall.kind = "addPrototype"
    /\ LastCall.before.fullyInitialized
    /\ HalvesFilled(LastCall.before)
    /\ Len(LastCall.before.prototypes) = LastCall.before.numPrototypes
    /\ LastCall.toReplaceHash \in Range(LastCall.before.prototypes)
    /\ LastCall.prototypeHash \notin Range(LastCall.before.prototypes)

(* C26: on a fully initialised store, addPrototype with a toReplaceHash
   that is a prototype removes it from its half and from the stored
   prototypes and inserts the new prototype into the half indicated by
   `representative`; afterwards the store holds exactly p prototypes and
   toReplaceHash is not among them. *)
C26_ReplacementSwapsPrototype ==
    ReplacingCall =>
        /\ ~raised
        /\ LastCall.toReplaceHash \notin
                TheStore.representativePrototypeHashes \cup TheStore.otherPrototypeHashes
        /\ LastCall.toReplaceHash \notin Range(TheStore.prototypes)
        /\ LastCall.prototypeHash \in
                (IF LastCall.representative THEN TheStore.representativePrototypeHashes
                 ELSE TheStore.otherPrototypeHashes)
        /\ Len(TheStore.prototypes) = TheStore.numPrototypes

(* C26, what the program does: the call always raises, and nothing is
   undone.  If toReplaceHash is in the half indicated by `representative`
   it has left that half and the history but is still a key of the stored
   prototypes, and the new prototype was not inserted; otherwise the store
   is unchanged. *)
C26_ReplacementRaises ==
    ReplacingCall =>
        /\ raised
        /\ TheStore.prototypes = LastCall.before.prototypes
        /\ LastCall.prototypeHash \notin
                TheStore.representativePrototypeHashes \cup TheStore.otherPrototypeHashes
        /\ IF LastCall.toReplaceHash \in
                (IF LastCall.representative
                 THEN LastCall.before.representativePrototypeHashes
                 ELSE LastCall.before.otherPrototypeHashes)
           THEN TheStore = _removePrototype(LastCall.before, LastCall.toReplaceHash,
                                            LastCall.representative)
           ELSE TheStore = LastCall.before

(* A replacement of a representative prototype by a new representative
   was called on a fully initialised store. *)
C26_Witness ==
    /\ ReplacingCall
    /\ LastCall.representative
    /\ LastCall.toReplaceHash \in LastCall.before.representativePrototypeHashes
    /\ LastCall.toReplaceHash \notin TheStore.representativePrototypeHashes

(***************************************************************************)
(* C27.  The two error cases of addPrototype.                              *)
(***************************************************************************)

(* The last call was addPrototype on a fully initialised store without a   *)
(* toReplaceHash.                                                          *)
AddToFullStore ==
    /\ log # << >> /\ LastCall.kind = "addPrototype"
    /\ LastCall.before.fullyInitialized
    /\ LastCall.toReplaceHash = NoHash

(* The last call was addPrototype with a toReplaceHash that is in neither *)
(* half of the store.                                                      *)
ReplaceAbsent ==
    /\ log # << >> /\ LastCall.kind = "addPrototype"
    /\ LastCall.toReplaceHash # NoHash
    /\ LastCall.toReplaceHash \notin LastCall.before.representativePrototypeHashes
                                    \cup LastCall.before.otherPrototypeHashes

(* C27: addPrototype raises when the store is fully initialised and no
   toReplaceHash is given, and when the toReplaceHash given is not a
   current prototype; in both cases the store (prototypes, halves, history,
   flags) is as before the call. *)
C27_RejectedAddLeavesStore ==
    (AddToFullStore \/ ReplaceAbsent) =>
        raised /\ pc = "raised" /\ TheStore = LastCall.before

(* An add of a new hash without toReplaceHash was made on a fully
   initialised store. *)
C27_Witness ==
    /\ AddToFullStore
    /\ HalvesFilled(LastCall.before)
    /\ LastCall.prototypeHash \notin Range(LastCall.before.prototypes)

(***************************************************************************)
(* C28.  What updatePrototypes returns and the last-updated ticks.         *)
(***************************************************************************)

(* The last call was updatePrototypes and it returned.                     *)
Updated == log # << >> /\ LastCall.kind = "updatePrototypes" /\ ~LastCall.raised

(* h is in the same half after the last call as before it.                 *)
StayedInHalf(h) ==
    \/ h \in LastCall.before.representativePrototypeHashes
            \cap LastCall.newRepresentativePrototypeHashes
    \/ h \in LastCall.before.otherPrototypeHashes \cap LastCall.newOtherPrototypeHashes

(* C28: updatePrototypes returns exactly the hashes that were stored
   prototypes before and are not after; afterwards lastUpdatePrototype is
   the tick of the call for every prototype that entered the store or
   changed half and is as before for every prototype that stayed in its
   half, and the history has exactly the new prototype hashes as keys. *)
C28_UpdateReturnsRemovedAndRefreshesTicks ==
    Updated =>
        /\ LastCall.returned =
                Range(LastCall.before.prototypes) \ Range(TheStore.prototypes)
        /\ Range(TheStore.prototypes) = Range(LastCall.newPrototypes)
        /\ DOMAIN TheStore.prototypeHistory = Range(LastCall.newPrototypes)
        /\ \A h \in Range(LastCall.newPrototypes) :
                lastUpdatePrototype(TheStore, h) =
                    IF StayedInHalf(h)
                    THEN lastUpdatePrototype(LastCall.before, h)
                    ELSE LastCall.tick

(* An update at a later tick moved a prototype to the other half and kept
   a prototype in its half. *)
C28_Witness ==
    /\ Updated
    /\ \E h \in Range(LastCall.newPrototypes) :
            /\ StayedInHalf(h)
            /\ lastUpdatePrototype(LastCall.before, h) < LastCall.tick
    /\ \E h \in Range(LastCall.newPrototypes) \cap DOMAIN LastCall.before.prototypeHistory :
            /\ ~StayedInHalf(h)
            /\ lastUpdatePrototype(LastCall.before, h) < LastCall.tick

(***************************************************************************)
(* C29.  The caches of a cluster after its prototypes were updated.        *)
(***************************************************************************)

(* The selection changed the prototypes of its cluster: their set, or only *)
(* which of them are representative.                                       *)
ChangedPrototypes(ev) ==
    ev.removed # {} \/ ev.representative # ev.representativeBefore

(* The value the cached property reads when nothing is cached.             *)
Recomputed(c, Property(_, _)) == Property(Invalidate(c), dist).v

(* Every derived quantity the cluster holds and every memoised sum of      *)
(* distances is what the current prototypes and the current split give.    *)
CachesCurrent(c) ==
    /\ c.averageSumOfDistances # None =>
            c.averageSumOfDistances = Recomputed(c, averageSumOfDistances)
    /\ c.averageDistance # None =>
            c.averageDistance = Recomputed(c, averageDistance)
    /\ c.averageRepresentativeness # None =>
            c.averageRepresentativeness = Recomputed(c, averageRepresentativeness)
    /\ c.averageDistanceFromRepresentativeToNonRepresentative # None =>
            c.averageDistanceFromRepresentativeToNonRepresentative =
                Recomputed(c, averageDistanceFromRepresentativeToNonRepresentative)
    /\ c.error # None => c.error = Recomputed(c, error)
    /\ c.upperBound # None => c.upperBound = Recomputed(c, upperBound)
    /\ \A key \in DOMAIN c.sumsOfDistances :
            c.sumsOfDistances[key] =
                SumDistances(dist, key[1],
                    IF key[2] THEN SetOrder(c.prototypes.representativePrototypeHashes)
                    ELSE c.prototypes.prototypes)

(* C29: after a call in which updatePrototypes changed anything about the
   prototypes of a cluster (their set or only the split), every derived
   quantity the cluster holds and every memoised sum equals the value
   computed from the current prototypes and split. *)
C29_CachesCurrentAfterAnyChange ==
    \A ev \in PersistedSelections :
        ChangedPrototypes(ev) => CachesCurrent(clusters[ev.cluster])

(* C29, what the program does: the caches are current after an update
   that removed a prototype. *)
C29_CachesCurrentAfterRemoval ==
    \A ev \in PersistedSelections :
        ev.removed # {} => CachesCurrent(clusters[ev.cluster])

(* An update removed a prototype of a cluster, and the rest of the call
   cached an error bound and memoised sums for the new prototypes. *)
C29_Witness ==
    \E ev \in PersistedSelections :
        /\ ev.removed # {}
        /\ clusters[ev.cluster].error # None
        /\ clusters[ev.cluster].sumsOfDistances # << >>

(***************************************************************************)
(* C30.  The keys of a cluster's distance cache.                           *)
(***************************************************************************)
CacheKeys(c) == {<<c.distances[k][1], c.distances[k][2]>> : k \in 1..Len(c.distances)}

(* C30: between processSequence calls every key (a, b) of a cluster's
   distance cache has an endpoint that is a current prototype of that
   cluster; no entry survives whose endpoints are both removed prototypes. *)
C30_CacheKeysTouchPrototypes ==
    \A i \in DOMAIN clusters :
        \A key \in CacheKeys(clusters[i]) :
            \/ key[1] \in Range(clusters[i].prototypes.prototypes)
            \/ key[2] \in Range(clusters[i].prototypes.prototypes)

(* C30, what the program does: a sequence that was labelled has no key left
   in the cache of the cluster it was assigned to. *)
C30_LabelledSequenceLeavesItsCluster ==
    \A ev \in Events("label") :
        \A key \in CacheKeys(clusters[ev.label]) :
            ev.hash # key[1] /\ ev.hash # key[2]

(* A sequence was labelled with one of two clusters after its distances to
   the prototypes of both had been cached, and the other cluster still holds
   them. *)
C30_Witness ==
    \E ev \in Events("label") :
        \E i \in DOMAIN clusters :
            /\ i # ev.label
            /\ \E key \in CacheKeys(clusters[i]) : ev.hash = key[1]

(***************************************************************************)
(* C31.  What is left of a labelled sequence in the caches.                *)
(***************************************************************************)

(* The sequences for which a cluster memoised a sum of distances.          *)
MemoHashes(c) == {key[1] : key \in DOMAIN c.sumsOfDistances}

(* The sequences at an end of a key of the cluster's distance cache.       *)
CachedHashes(c) == {key[1] : key \in CacheKeys(c)} \cup {key[2] : key \in CacheKeys(c)}

(* C31: after a call that labelled a sequence that is not a prototype, no
   cluster holds a distance-cache entry or a memoised sum of distances that
   refers to the hash of that sequence. *)
C31_LabelledSequenceLeavesEveryCache ==
    \A ev \in Events("label") :
        \A i \in DOMAIN clusters :
            ev.hash \notin CachedHashes(clusters[i]) \cup MemoHashes(clusters[i])

(* C31, what the program does: the cluster the sequence was assigned to
   holds neither a cache entry nor a memoised sum for it. *)
C31_LabelledSequenceLeavesCachesOfItsCluster ==
    \A ev \in Events("label") :
        ev.hash \notin CachedHashes(clusters[ev.label]) \cup MemoHashes(clusters[ev.label])

(* A sequence was labelled with one of two clusters and the other cluster
   still holds the sum of distances it memoised for that sequence. *)
C31_Witness ==
    \E ev \in Events("label") :
        \E i \in DOMAIN clusters :
            /\ i # ev.label
            /\ ev.hash \in MemoHashes(clusters[i])
            /\ ev.hash \notin MemoHashes(clusters[ev.label])

(***************************************************************************)
(* C32.  The distance cache holds both orientations of every pair.         *)
(***************************************************************************)
SymmetricCache(c) ==
    \A k \in 1..Len(c.distances) :
        /\ HasKey(c.distances, c.distances[k][2], c.distances[k][1])
        /\ GetKey(c.distances, c.distances[k][2], c.distances[k][1]) = c.distances[k][3]

(* C32: in every reachable state, whenever the distance cache of a cluster
   holds (a, b) it holds (b, a) with the same value. *)
C32_CacheSymmetric ==
    \A i \in DOMAIN clusters : SymmetricCache(clusters[i])

(* C32: entries enter and leave the cache of a cluster in both orientations
   together. *)
C32_OrientationsChangeTogether ==
    [][\A i \in DOMAIN clusters :
            \A a, b \in Hashes :
                (<<a, b>> \in CacheKeys(clusters[i])) # (<<a, b>> \in CacheKeys(clusters[i]'))
                    => (<<b, a>> \in CacheKeys(clusters[i])) # (<<b, a>> \in CacheKeys(clusters[i]'))]_vars

(* A flush replaced a prototype of a cluster and labelled a sequence with
   that cluster: distances were required for the update, looked up for the
   sequence and purged, and the cache still holds pairs of different
   sequences. *)
C32_Witness ==
    \E ev \in PersistedSelections :
        /\ ev.removed # {}
        /\ \E lb \in Events("label") : lb.label = ev.cluster
        /\ \E key \in CacheKeys(clusters[ev.cluster]) : key[1] # key[2]

(***************************************************************************)
(* C33.  Pairs of a sequence with itself.                                  *)
(***************************************************************************)

(* The sequences the cache of a cluster holds under a key (h, h): their    *)
(* distance to themselves was asked of the distance measure and stored.    *)
SelfPairs(c) == {h \in Hashes : <<h, h>> \in CacheKeys(c)}

(* C33: no cluster ever calls the distance measure on a pair of equal
   hashes; in particular no cache holds an entry under a key (h, h). *)
C33_NoSelfPairCached ==
    \A i \in DOMAIN clusters : SelfPairs(clusters[i]) = {}

(* C33, what the program does: a key (h, h) enters the cache of a cluster
   only in a call that updated the prototypes of that cluster to a set
   holding h; looking up distances and sums never stores one. *)
C33_SelfPairsOnlyFromUpdate ==
    [][\A i \in DOMAIN clusters :
            \A h \in SelfPairs(clusters[i])' \ SelfPairs(clusters[i]) :
                \E ev \in Events("select")' :
                    ev.cluster = i /\ h \in Range(ev.prototypes)]_vars

(* A sequence was evaluated against a cluster whose prototypes were never
   updated: its distances to the prototypes and the averages of the
   prototypes among themselves were computed and cached, and no key (h, h)
   was stored. *)
C33_Witness ==
    \E ev \in Events("label") :
        \E i \in DOMAIN clusters :
            /\ i # ev.label
            /\ ev.hash \in CachedHashes(clusters[i])
            /\ clusters[i].averageSumOfDistances # None
            /\ SelfPairs(clusters[i]) = {}
            /\ SelfPairs(clusters[ev.label]) # {}

(***************************************************************************)
(* C34.  The vote of a labelled sequence.                                  *)
(***************************************************************************)

(* The number of votes a prototype holds, 0 while its count is undefined.  *)
VotesOf(fs, h) == IF fs.frequencies[h][1] THEN fs.frequencies[h][2] ELSE 0

(* The prototype at the other end of a cache entry of a sequence.          *)
OtherEnd(e, sequenceHash) == IF e[1] # sequenceHash THEN e[1] ELSE e[2]

(* The call that has just returned labelled exactly one sequence, ev, and  *)
(* no selection of it removed a prototype.                                 *)
OnlyLabelling(ev) ==
    /\ pc' # "raised"
    /\ Events("label")' = {ev}
    /\ \A sel \in Events("select")' : sel.removed = {}

(* The vote went to prototype h of the cluster: one vote more for h, the   *)
(* counts of the other prototypes and the set of keys as before.           *)
VoteAwarded(before, after, h) ==
    /\ DOMAIN after.frequencies = DOMAIN before.frequencies
    /\ h \in DOMAIN before.frequencies
    /\ after.frequencies[h] = <<TRUE, VotesOf(before, h) + 1>>
    /\ \A g \in DOMAIN before.frequencies \ {h} : after.frequencies[g] = before.frequencies[g]

(* C34: a call that labels one sequence with cluster w (directly or in a
   flush that removes no prototype) awards exactly one vote: to the current
   prototype of w with the minimal cached distance to the sequence;
   totalObservations of w grows by exactly 1 and the frequency stores of all
   other clusters are unchanged. *)
C34_LabellingAwardsOneVote ==
    [][\A ev \in Events("label")' :
            OnlyLabelling(ev) =>
                /\ \E e \in Range(ev.entries) :
                        /\ \A f \in Range(ev.entries) : e[3] <= f[3]
                        /\ OtherEnd(e, ev.hash) \in Range(clusters[ev.label].prototypes.prototypes)
                        /\ VoteAwarded(clusters[ev.label].prototypeFrequencies,
                                       clusters[ev.label].prototypeFrequencies',
                                       OtherEnd(e, ev.hash))
                /\ clusters[ev.label].prototypeFrequencies.totalObservations' =
                        clusters[ev.label].prototypeFrequencies.totalObservations + 1
                /\ \A i \in DOMAIN clusters \ {ev.label} :
                        clusters[i].prototypeFrequencies' = clusters[i].prototypeFrequencies]_vars

(* C34, for a flush that labels several sequences and removes no
   prototype: the totalObservations of every cluster grows by the number of
   sequences labelled with it, no prototype loses a vote, and for every
   labelled sequence a prototype at minimal cached distance gained one. *)
C34_FlushAwardsOneVoteEach ==
    [][(pc' # "raised" /\ \A sel \in Events("select")' : sel.removed = {}) =>
            \A i \in DOMAIN clusters :
                /\ clusters[i].prototypeFrequencies.totalObservations' =
                        clusters[i].prototypeFrequencies.totalObservations
                            + Cardinality({ev \in Events("label")' : ev.label = i})
                /\ \A h \in DOMAIN clusters[i].prototypeFrequencies.frequencies :
                        /\ h \in DOMAIN clusters[i].prototypeFrequencies.frequencies'
                        /\ VotesOf(clusters[i].prototypeFrequencies', h)
                                >= VotesOf(clusters[i].prototypeFrequencies, h)
                /\ \A ev \in Events("label")' :
                        ev.label = i =>
                            \E e \in Range(ev.entries) :
                                /\ \A f \in Range(ev.entries) : e[3] <= f[3]
                                /\ VotesOf(clusters[i].prototypeFrequencies', OtherEnd(e, ev.hash))
                                        > VotesOf(clusters[i].prototypeFrequencies,
                                                  OtherEnd(e, ev.hash))]_vars

(* A sequence was labelled with one of two clusters, alone in its call and
   with no prototype removed; its cached distances to the prototypes of
   that cluster differ, and the nearer prototype holds votes. *)
C34_Witness ==
    \E ev \in Events("label") :
        /\ Events("label") = {ev}
        /\ \A sel \in Events("select") : sel.removed = {}
        /\ numClusters = 2
        /\ \E e, f \in Range(ev.entries) :
                /\ e[3] < f[3]
                /\ \A g \in Range(ev.entries) : e[3] <= g[3]
                /\ VotesOf(clusters[ev.label].prototypeFrequencies, OtherEnd(e, ev.hash)) > 0
                /\ VotesOf(clusters[ev.label].prototypeFrequencies, OtherEnd(f, ev.hash)) = 0

(***************************************************************************)
(* C35.  getWeight on the prototypes of an initialised cluster.            *)
(***************************************************************************)

(* The cluster holds all its prototypes.                                   *)
ClusterInitialised(c) == Len(c.prototypes.prototypes) = c.prototypes.numPrototypes

(* C35: in every reachable state getWeight(h) returns, for every current
   prototype h of a cluster that holds all its prototypes: the count over
   totalObservations, or 0 when the count is uninitialised or
   totalObservations is 0. *)
C35_GetWeightNeverFails ==
    \A i \in DOMAIN clusters :
        ClusterInitialised(clusters[i]) =>
            \A h \in Range(clusters[i].prototypes.prototypes) :
                ~getWeightFails(clusters[i].prototypeFrequencies, h)

(* C35, what the program does: getWeight returns for every current
   prototype of an initialised cluster whose totalObservations is not 0 or
   whose count is uninitialised, and the weight is 0 exactly for the
   prototypes without votes. *)
C35_GetWeightReturnsUnlessTotalZero ==
    \A i \in DOMAIN clusters :
        ClusterInitialised(clusters[i]) =>
            \A h \in Range(clusters[i].prototypes.prototypes) :
                LET fs == clusters[i].prototypeFrequencies
                IN  /\ h \in DOMAIN fs.frequencies
                    /\ Cardinality(DOMAIN fs.frequencies) = fs.numPrototypes
                    /\ getWeightFails(fs, h) <=>
                            (fs.frequencies[h][1] /\ fs.totalObservations = 0)
                    /\ ~getWeightFails(fs, h) =>
                            /\ getWeight(fs, h) = Rat(VotesOf(fs, h), Max(fs.totalObservations, 1))
                            /\ (getWeight(fs, h) = RInt(0)) <=> (VotesOf(fs, h) = 0)

(* The votes of a removed prototype were redistributed and truncated to 0:
   a current prototype has a defined count of 0 and totalObservations is
   0. *)
C35_Witness ==
    \E i \in DOMAIN clusters :
        /\ ClusterInitialised(clusters[i])
        /\ clusters[i].prototypeFrequencies.totalObservations = 0
        /\ \E h \in Range(clusters[i].prototypes.prototypes) :
                clusters[i].prototypeFrequencies.frequencies[h] = <<TRUE, 0>>
        /\ \E ev \in PersistedSelections : ev.cluster = i /\ ev.removed # {}

(***************************************************************************)
(* C36.  The votes of a removed prototype.                                 *)
(***************************************************************************)
RFloor(x) == x[1] \div x[2]

(* The share of the votes of a removed prototype that falls to one new     *)
(* prototype, before it is made an integer: the normalised fraction times  *)
(* the number of votes.                                                    *)
Share(newPrototypeHashes, toRemove, prototypeHash, numVotes, distances) ==
    LET sumOfDistances == computeSumOfDistances(newPrototypeHashes, distances)
        fraction == RSub(RInt(1), Rat(EitherKey(distances, toRemove, prototypeHash), sumOfDistances))
    IN  RMul(RDiv(fraction, FractionsSum(newPrototypeHashes, toRemove, distances, sumOfDistances)),
             RInt(numVotes))

(* The votes prototype h of a store gained between two states of it.       *)
Gain(before, after, h) ==
    VotesOf(after, h) - (IF h \in DOMAIN before.frequencies THEN VotesOf(before, h) ELSE 0)

RECURSIVE SumGains(_, _, _)
SumGains(before, after, hs) ==
    IF hs = {} THEN 0
    ELSE LET h == CHOOSE x \in hs : TRUE
         IN  Gain(before, after, h) + SumGains(before, after, hs \ {h})

(* The last call of the frequency store was updatePrototypes, it removed   *)
(* a prototype that held votes, and it returned.                           *)
Redistributed ==
    /\ log # << >> /\ ~LastCall.raised
    /\ \A h \in LastCall.removedPrototypeHashes : VotesOf(LastCall.before, h) > 0

(* The one prototype the call removed.                                     *)
Removed == CHOOSE h \in LastCall.removedPrototypeHashes : TRUE

(* The bookkeeping of a redistribution: the removed entry is gone, the     *)
(* counts of the new prototypes are defined, and totalObservations is the  *)
(* old value minus the removed votes plus the votes handed out.            *)
RedistributionBooked(before, after, newPrototypeHashes, toRemove) ==
    /\ toRemove \notin DOMAIN after.frequencies
    /\ DOMAIN after.frequencies = newPrototypeHashes
    /\ \A n \in newPrototypeHashes : after.frequencies[n][1]
    /\ after.totalObservations =
            before.totalObservations - VotesOf(before, toRemove)
                + SumGains(before, after, newPrototypeHashes)

(* C36: when a prototype with v > 0 votes is removed, every new prototype
   n_i gains exactly floor(transferred_i * v) votes, transferred_i being
   (1 - d(removed, n_i)/S) normalised to sum 1 over the new prototypes and S
   the sum of the distances over the ordered pairs of distinct new
   prototypes; the removed entry is deleted and totalObservations ends at
   the old value minus v plus the votes transferred. *)
C36_GainIsFloorOfShare ==
    Redistributed =>
        /\ RedistributionBooked(LastCall.before, clusters[0].prototypeFrequencies,
                                LastCall.newPrototypeHashes, Removed)
        /\ \A n \in LastCall.newPrototypeHashes :
                Gain(LastCall.before, clusters[0].prototypeFrequencies, n) =
                    RFloor(Share(LastCall.newPrototypeHashes, Removed, n,
                                 VotesOf(LastCall.before, Removed), LastCall.distances))

(* C36, what the program does: the bookkeeping is as stated, and int()
   cuts the share of every new prototype towards zero, not downwards. *)
C36_GainIsShareCutTowardsZero ==
    Redistributed =>
        /\ RedistributionBooked(LastCall.before, clusters[0].prototypeFrequencies,
                                LastCall.newPrototypeHashes, Removed)
        /\ \A n \in LastCall.newPrototypeHashes :
                Gain(LastCall.before, clusters[0].prototypeFrequencies, n) =
                    RTrunc(Share(LastCall.newPrototypeHashes, Removed, n,
                                 VotesOf(LastCall.before, Removed), LastCall.distances))

(* A prototype with two votes was removed from a store of three; of the
   new prototypes one has a negative share that is no integer and one a
   positive share. *)
C36_Witness ==
    /\ Redistributed
    /\ numPrototypes = 3
    /\ VotesOf(LastCall.before, Removed) = 2
    /\ \E n, m \in LastCall.newPrototypeHashes :
            /\ Share(LastCall.newPrototypeHashes, Removed, n, 2, LastCall.distances)[1] < 0
            /\ Share(LastCall.newPrototypeHashes, Removed, n, 2, LastCall.distances)[2] > 1
            /\ Share(LastCall.newPrototypeHashes, Removed, m, 2, LastCall.distances)[1] > 0

(***************************************************************************)
(* FakeDataSource (library/data_source/fake_data_source.py) on its own,    *)
(* after generateData: `data` is its data list, `currentIndex` its index,  *)
(* `sequencesToProcess` the batch the last advanceTick returned and `log`  *)
(* the batches returned so far, one entry per call.                        *)
(***************************************************************************)
SourceElements == 1..2
SourceMaxPerTickValues == 1..3

(* The Python slice data[from:to], 0 <= from <= to.                        *)
Slice(s, from, to) == SubSeq(s, from + 1, Min(to, Len(s)))

(* advanceTick that returns the batch and leaves currentIndex as it was.   *)
advanceTickKeepsIndex(source, numberOfElementsToFeed) ==
    [toReturn |-> Slice(source.data, source.currentIndex,
                        source.currentIndex + numberOfElementsToFeed),
     currentIndex |-> source.currentIndex]

(* advanceTick with randint(1, maxPerTick) = numberOfElementsToFeed: the   *)
(* batch returned and the index afterwards.                                *)
advanceTick(source, numberOfElementsToFeed) ==
    LET dataSize == Len(source.data)
        toFeed == IF source.currentIndex + numberOfElementsToFeed >= dataSize
                  THEN IF source.currentIndex >= dataSize THEN 0
                       ELSE dataSize - source.currentIndex
                  ELSE numberOfElementsToFeed
    IN  [toReturn |-> IF source.currentIndex + numberOfElementsToFeed >= dataSize
                            /\ source.currentIndex >= dataSize
                      THEN << >>
                      ELSE Slice(source.data, source.currentIndex, source.currentIndex + toFeed),
         currentIndex |-> source.currentIndex + toFeed]

SourceInit ==
    /\ numClusters = 1
    /\ numPrototypes = 2
    /\ numRepresentativePrototypes = 1
    /\ buffering = FALSE /\ bufferSize = 0
    /\ minimumRepresentativeness = <<0, 1>>
    /\ ratio = 0
    /\ clusterAssignment = FALSE
    /\ maxPerTick \in SourceMaxPerTickValues
    /\ data \in UNION {[1..n -> SourceElements] : n \in 0..MaxSourceData}
    /\ clusters = initializeClusters(numClusters, numRepresentativePrototypes, numPrototypes, -1)
    /\ candidates = << >>
    /\ labels = << >>
    /\ clusteredByApproximation = {}
    /\ bufferedSequences = {}
    /\ numFullyProcessed = 0
    /\ tick = -1
    /\ finish = FALSE
    /\ dist = << >>
    /\ delivered = 0
    /\ currentIndex = 0
    /\ sequencesToProcess = << >>
    /\ pc = "source"
    /\ raised = FALSE
    /\ ingested = {}
    /\ emptyBatches = 0
    /\ peeks = 0
    /\ duplicates = 0
    /\ log = << >>

(* One call of advanceTick; the calls after exhaustion are counted in      *)
(* emptyBatches.                                                           *)
SourceAdvanceTick ==
    /\ pc = "source" /\ emptyBatches < MaxEmptyCalls
    /\ \E numberOfElementsToFeed \in 1..maxPerTick :
        \E r \in {advanceTick([data |-> data, currentIndex |-> currentIndex],
                              numberOfElementsToFeed)} :
            /\ sequencesToProcess' = r.toReturn
            /\ currentIndex' = r.currentIndex
            /\ log' = Append(log, r.toReturn)
            /\ emptyBatches' = IF r.toReturn = << >> THEN emptyBatches + 1 ELSE emptyBatches
    /\ UNCHANGED <<config, core, tick, finish, dist, delivered, pc, raised, ingested, peeks,
                   duplicates>>

SourceSpec == SourceInit /\ [][SourceAdvanceTick]_vars

(***************************************************************************)
(* C37.  What advanceTick delivers.                                        *)
(***************************************************************************)
RECURSIVE Concatenation(_)
Concatenation(batches) ==
    IF batches = << >> THEN << >> ELSE Head(batches) \o Concatenation(Tail(batches))

(* C37: the batches advanceTick has returned so far, put together, are the
   data list up to the current index, in order; each has at most maxPerTick
   elements; a batch is empty only if everything was delivered before it,
   and after that every batch is empty. *)
C37_DeliversDataOnceInOrder ==
    /\ Len(Concatenation(log)) <= Len(data)
    /\ Concatenation(log) = SubSeq(data, 1, Len(Concatenation(log)))
    /\ \A k \in 1..Len(log) :
            /\ Len(log[k]) <= maxPerTick
            /\ log[k] = << >> => Concatenation(SubSeq(log, 1, k - 1)) = data
            /\ log[k] = << >> => \A j \in k..Len(log) : log[j] = << >>

(* A list of several elements was delivered in more than one batch, the
   last one cut short by the end of the data, and advanceTick was called
   again after that. *)
C37_Witness ==
    /\ Len(data) >= 3
    /\ Len(log) >= 4
    /\ log[Len(log)] = << >> /\ log[Len(log) - 1] = << >>
    /\ Len(log[1]) = 2
    /\ Concatenation(log) = data
    /\ \E k \in 1..Len(log) : log[k] # << >> /\ Len(log[k]) < maxPerTick
            /\ Concatenation(SubSeq(log, 1, k)) = data

(***************************************************************************)
(* C38.  The set of buffered sequences.                                    *)
(***************************************************************************)

(* The sequences the step put into the candidate buffer: those in the      *)
(* buffer afterwards or at the start of a flush of the step that were not  *)
(* in the buffer before.                                                   *)
InsertedNow ==
    (CandidateHashes(candidates') \cup UNION {ev.candidates : ev \in Events("flush")'})
        \ CandidateHashes(candidates)

(* C38: bufferedSequences starts empty; every call adds to it exactly the
   sequences it inserts into the candidate buffer if buffering is enabled
   and nothing otherwise.  So the set only grows, holds every sequence that
   is in the buffer, and stays empty without buffering. *)
C38_RecordsInsertionsWhileBuffering ==
    /\ bufferedSequences = {}
    /\ [][pc' # "raised" =>
            /\ bufferedSequences' =
                    bufferedSequences \cup (IF buffering THEN InsertedNow ELSE {})
            /\ bufferedSequences \subseteq bufferedSequences'
            /\ buffering => CandidateHashes(candidates') \subseteq bufferedSequences'
            /\ ~buffering => bufferedSequences' = {}]_vars

(* With buffering, one recorded sequence is still in the buffer and another
   has left it in a flush. *)
C38_Witness ==
    /\ buffering
    /\ \E h \in bufferedSequences : h \in CandidateHashes(candidates)
    /\ \E h \in bufferedSequences :
            h \notin CandidateHashes(candidates) /\ h \in DOMAIN labels

(***************************************************************************)
(* C39.  Ratio 0: the value of a prototype is its weight.                  *)
(***************************************************************************)

(* The values a selection gave to its candidates and to the incumbents.    *)
CandidateValuesOf(ev) == {ev.values[k][2] : k \in 1..Len(ev.candidates)}
IncumbentValuesOf(ev) == {ev.values[k][2] : k \in (Len(ev.candidates) + 1)..Len(ev.values)}

(* C39: with ratio 0 no call changes the set of prototypes of a cluster
   that holds all its prototypes; in every flush every candidate has value
   0, no prototype is removed, and the candidates are labelled. *)
C39_RatioZeroKeepsPrototypes ==
    [][ratio = 0 =>
            /\ \A i \in DOMAIN clusters :
                    ClusterInitialised(clusters[i]) =>
                        Range(clusters[i].prototypes.prototypes') =
                            Range(clusters[i].prototypes.prototypes)
            /\ pc' # "raised" =>
                    /\ \A ev \in Events("select")' :
                            /\ CandidateValuesOf(ev) = {RInt(0)}
                            /\ ev.removed = {}
                            /\ Range(ev.prototypes) = Range(ev.before)
                    /\ \A ev \in Events("flush")' :
                            ev.persist => ev.candidates \subseteq DOMAIN labels'
                    /\ Promoted(clusters') = {}]_vars

(* With ratio 0 a flush valued a candidate against an incumbent with votes
   and an incumbent without (whose value ties with the candidate's), kept
   both incumbents and labelled the candidate. *)
C39_Witness ==
    /\ ratio = 0
    /\ \E ev \in PersistedSelections :
            /\ ev.candidates # << >>
            /\ RInt(0) \in IncumbentValuesOf(ev)
            /\ \E v \in IncumbentValuesOf(ev) : RLt(RInt(0), v)
            /\ Range(ev.candidates) \subseteq DOMAIN labels
            /\ Range(ev.candidates) \cap Range(clusters[ev.cluster].prototypes.prototypes) = {}

(***************************************************************************)
(* C40.  Labels, once set.                                                 *)
(***************************************************************************)

(* C40: once labels[h] is set, no later call changes its value or removes
   h from the labels. *)
C40_LabelsStable ==
    [][\A h \in DOMAIN labels : h \in DOMAIN labels' /\ labels'[h] = labels[h]]_vars

(* C40, what the program does: no label is ever removed, and the label of
   a sequence changes only in a flush that removes the sequence, then a
   prototype, from a cluster of the new label. *)
C40_LabelsKeptUnlessRemovedPrototype ==
    [][\A h \in DOMAIN labels :
            /\ h \in DOMAIN labels'
            /\ labels'[h] # labels[h] =>
                    \E ev \in Events("select")' :
                        /\ h \in ev.removed
                        /\ h \in Range(ev.before)
                        /\ labels'[h] = classes[ev.cluster + 1]]_vars

(* A sequence that was promoted to two clusters and labelled with the
   first is a prototype of neither any more and carries the label of the
   second. *)
C40_Witness ==
    \E ev \in PersistedSelections :
        \E h \in ev.removed :
            /\ h > numClusters * numPrototypes
            /\ HoldersOf(h) = {}
            /\ labels[h] = classes[ev.cluster + 1]
            /\ ev.cluster = 1

=============================================================================
